---- MODULE Spec2Model ----
(***************************************************************************)
(* Verification model of the cubist core: move algebra (core/moves.py),    *)
(* cubie state (core/cube_state.py), validators (core/validators.py),      *)
(* scramble generator (core/scramble.py) and the IDA* solver               *)
(* (solvers/research_ida.py).                                              *)
(*                                                                         *)
(* Conventions.  Python arrays are 0-based; they are modelled as TLA+      *)
(* sequences, so the element at Python index p is arr[p + 1].  The values  *)
(* stored in the arrays (cubie ids, orientations) are kept 0-based.        *)
(* A Python exception is the record [exc |-> kind]; an operator that calls *)
(* code which raises propagates the record, as the interpreter unwinds.    *)
(***************************************************************************)
EXTENDS Integers, Sequences, FiniteSets, TLC

----------------------------------------------------------------------------
(* Bounds of the model.                                                    *)

\* largest `length` handed to generate_scramble
MaxScramble ==
    3

\* longest sequence handed to simplify
MaxSimplify ==
    4

----------------------------------------------------------------------------
(* Python values.                                                          *)

Raise(kind) ==
    [exc |-> kind]

IsExc(x) ==
    "exc" \in DOMAIN x

ValueError ==
    Raise("ValueError")

IndexError ==
    Raise("IndexError")

\* x.f() where x may already be a raised exception
Then(x, Op(_)) ==
    IF IsExc(x) THEN x ELSE Op(x)

Range(n) ==
    [k \in 1..n |-> k - 1]

Zeros(n) ==
    [k \in 1..n |-> 0]

RECURSIVE Sum(_)
Sum(arr) ==
    IF Len(arr) = 0 THEN 0 ELSE Head(arr) + Sum(Tail(arr))

\* Python's % : the result takes the sign of the (positive) divisor
PyMod(a, n) ==
    a % n

----------------------------------------------------------------------------
(* core/moves.py : the Move enum.                                          *)

Move ==
    {"R", "Rp", "R2",
     "L", "Lp", "L2",
     "U", "Up", "U2",
     "D", "Dp", "D2",
     "F", "Fp", "F2",
     "B", "Bp", "B2",
     "r", "rp", "r2",
     "l", "lp", "l2",
     "u", "up", "u2",
     "d", "dp", "d2",
     "f", "fp", "f2",
     "b", "bp", "b2"}

\* Move.__str__ : the notation token, as its sequence of characters
move_map ==
    ("R" :> <<"R">> @@ "Rp" :> <<"R", "'">> @@ "R2" :> <<"R", "2">> @@
     "L" :> <<"L">> @@ "Lp" :> <<"L", "'">> @@ "L2" :> <<"L", "2">> @@
     "U" :> <<"U">> @@ "Up" :> <<"U", "'">> @@ "U2" :> <<"U", "2">> @@
     "D" :> <<"D">> @@ "Dp" :> <<"D", "'">> @@ "D2" :> <<"D", "2">> @@
     "F" :> <<"F">> @@ "Fp" :> <<"F", "'">> @@ "F2" :> <<"F", "2">> @@
     "B" :> <<"B">> @@ "Bp" :> <<"B", "'">> @@ "B2" :> <<"B", "2">> @@
     "r" :> <<"r">> @@ "rp" :> <<"r", "'">> @@ "r2" :> <<"r", "2">> @@
     "l" :> <<"l">> @@ "lp" :> <<"l", "'">> @@ "l2" :> <<"l", "2">> @@
     "u" :> <<"u">> @@ "up" :> <<"u", "'">> @@ "u2" :> <<"u", "2">> @@
     "d" :> <<"d">> @@ "dp" :> <<"d", "'">> @@ "d2" :> <<"d", "2">> @@
     "f" :> <<"f">> @@ "fp" :> <<"f", "'">> @@ "f2" :> <<"f", "2">> @@
     "b" :> <<"b">> @@ "bp" :> <<"b", "'">> @@ "b2" :> <<"b", "2">>)

\* Move.inverse
inverse_map ==
    ("R" :> "Rp" @@ "Rp" :> "R" @@ "R2" :> "R2" @@
     "L" :> "Lp" @@ "Lp" :> "L" @@ "L2" :> "L2" @@
     "U" :> "Up" @@ "Up" :> "U" @@ "U2" :> "U2" @@
     "D" :> "Dp" @@ "Dp" :> "D" @@ "D2" :> "D2" @@
     "F" :> "Fp" @@ "Fp" :> "F" @@ "F2" :> "F2" @@
     "B" :> "Bp" @@ "Bp" :> "B" @@ "B2" :> "B2" @@
     "r" :> "rp" @@ "rp" :> "r" @@ "r2" :> "r2" @@
     "l" :> "lp" @@ "lp" :> "l" @@ "l2" :> "l2" @@
     "u" :> "up" @@ "up" :> "u" @@ "u2" :> "u2" @@
     "d" :> "dp" @@ "dp" :> "d" @@ "d2" :> "d2" @@
     "f" :> "fp" @@ "fp" :> "f" @@ "f2" :> "f2" @@
     "b" :> "bp" @@ "bp" :> "b" @@ "b2" :> "b2")

inverse(move) ==
    inverse_map[move]

\* the 18 base face turns, in the order of IDAStarSolver.moves
BaseMoves ==
    <<"R", "Rp", "R2", "L", "Lp", "L2", "U", "Up", "U2",
      "D", "Dp", "D2", "F", "Fp", "F2", "B", "Bp", "B2">>

BaseMoveSet ==
    {BaseMoves[k] : k \in 1..Len(BaseMoves)}

\* Move.from_string : the token (a character sequence) back to the move
IsToken(move_str) ==
    \E m \in Move : move_map[m] = move_str

\* str.strip() : leading and trailing blanks removed
RECURSIVE strip(_)
strip(str) ==
    IF Len(str) > 0 /\ Head(str) = " " THEN strip(Tail(str))
    ELSE IF Len(str) > 0 /\ str[Len(str)] = " " THEN strip(SubSeq(str, 1, Len(str) - 1))
    ELSE str

from_string(move_str) ==
    IF IsToken(strip(move_str))
    THEN CHOOSE m \in Move : move_map[m] = strip(move_str)
    ELSE ValueError

----------------------------------------------------------------------------
(* core/cube_state.py : CubeState.                                         *)

\* constructor arguments: None, a Python list, or a numpy array
None ==
    [kind |-> "None", val |-> <<>>]

List(v) ==
    [kind |-> "list", val |-> v]

Ndarray(v) ==
    [kind |-> "ndarray", val |-> v]

\* bool(arg), as evaluated by `arg if arg else default`.  A list is true
\* when non-empty.  numpy refuses the truth value of an array with more
\* than one element ("The truth value of an array with more than one
\* element is ambiguous"): the test raises ValueError.
TruthRaises(arg) ==
    arg.kind = "ndarray" /\ Len(arg.val) > 1

Truth(arg) ==
    CASE arg.kind = "None" -> FALSE
      [] arg.kind = "list" -> Len(arg.val) # 0
      [] arg.kind = "ndarray" /\ Len(arg.val) = 1 -> arg.val[1] # 0
      [] OTHER -> FALSE

\* `np.array(arg if arg else default)`
ArgOrDefault(arg, default) ==
    IF Truth(arg) THEN arg.val ELSE default

\* CubeState.__init__ : no check of length or range is made
CubeState(corner_perm, corner_orient, edge_perm, edge_orient) ==
    IF \E a \in {corner_perm, corner_orient, edge_perm, edge_orient} :
          TruthRaises(a)
    THEN ValueError
    ELSE [corner_perm |-> ArgOrDefault(corner_perm, Range(8)),
          corner_orient |-> ArgOrDefault(corner_orient, Zeros(8)),
          edge_perm |-> ArgOrDefault(edge_perm, Range(12)),
          edge_orient |-> ArgOrDefault(edge_orient, Zeros(12))]

solved ==
    CubeState(None, None, None, None)

\* CubeState.clone : hands the four numpy arrays back to the constructor
clone(self) ==
    CubeState(Ndarray(self.corner_perm), Ndarray(self.corner_orient),
              Ndarray(self.edge_perm), Ndarray(self.edge_orient))

\* mutant of is_solved: the orientation arrays are not compared
is_solved_perm_only(self) ==
    /\ self.corner_perm = Range(8)
    /\ self.edge_perm = Range(12)

\* np.array_equal against arange / zeros: FALSE on a shape mismatch
is_solved(self) ==
    /\ self.corner_perm = Range(8)
    /\ self.corner_orient = Zeros(8)
    /\ self.edge_perm = Range(12)
    /\ self.edge_orient = Zeros(12)

\* CubeState.__eq__
StateEq(a, b) ==
    /\ ~IsExc(a)
    /\ ~IsExc(b)
    /\ a.corner_perm = b.corner_perm
    /\ a.corner_orient = b.corner_orient
    /\ a.edge_perm = b.edge_perm
    /\ a.edge_orient = b.edge_orient

\* The in-place rotation along a 4-cycle used by the three _apply_*_move
\* methods: arr[cycle[i]] receives the old arr[cycle[i+1]] for i = 0..2 and
\* arr[cycle[3]] receives the saved arr[cycle[0]]; D(p, v) is the value
\* stored at position p when v arrives there.
CycleArr(arr, cycle, D(_, _)) ==
    [k \in 1..Len(arr) |->
        IF \E i \in 1..4 : cycle[i] + 1 = k
        THEN LET i == CHOOSE i \in 1..4 : cycle[i] + 1 = k
             IN  D(cycle[i], arr[cycle[(i % 4) + 1] + 1])
        ELSE arr[k]]

Keep(p, v) ==
    v

\* numpy raises IndexError when a cycle position is outside the array
InBounds(state, corner_cycle, edge_cycle) ==
    /\ \A i \in 1..4 : corner_cycle[i] < Len(state.corner_perm)
    /\ \A i \in 1..4 : corner_cycle[i] < Len(state.corner_orient)
    /\ \A i \in 1..4 : edge_cycle[i] < Len(state.edge_perm)
    /\ \A i \in 1..4 : edge_cycle[i] < Len(state.edge_orient)

R_corner_cycle ==
    <<0, 3, 7, 4>>

R_edge_cycle ==
    <<0, 8, 4, 11>>

_apply_r_move(self) ==
    LET new_state == clone(self)
    IN  IF IsExc(new_state) THEN new_state
        ELSE IF ~InBounds(new_state, R_corner_cycle, R_edge_cycle)
        THEN IndexError
        ELSE [corner_perm |-> CycleArr(new_state.corner_perm, R_corner_cycle, Keep),
              corner_orient |-> CycleArr(new_state.corner_orient, R_corner_cycle, Keep),
              edge_perm |-> CycleArr(new_state.edge_perm, R_edge_cycle, Keep),
              edge_orient |-> CycleArr(new_state.edge_orient, R_edge_cycle, Keep)]

U_corner_cycle ==
    <<0, 1, 2, 3>>

U_edge_cycle ==
    <<0, 1, 2, 3>>

_apply_u_move(self) ==
    LET new_state == clone(self)
    IN  IF IsExc(new_state) THEN new_state
        ELSE IF ~InBounds(new_state, U_corner_cycle, U_edge_cycle)
        THEN IndexError
        ELSE [corner_perm |-> CycleArr(new_state.corner_perm, U_corner_cycle, Keep),
              corner_orient |-> CycleArr(new_state.corner_orient, U_corner_cycle, Keep),
              edge_perm |-> CycleArr(new_state.edge_perm, U_edge_cycle, Keep),
              edge_orient |-> CycleArr(new_state.edge_orient, U_edge_cycle, Keep)]

F_corner_cycle ==
    <<0, 4, 5, 1>>

F_edge_cycle ==
    <<1, 8, 5, 9>>

\* every corner arriving on the F cycle is twisted by +1
F_corner_twist(p, v) ==
    PyMod(v + 1, 3)

\* an edge arriving at UF (1) or DF (5) is flipped
F_edge_flip(p, v) ==
    IF p \in {1, 5} THEN PyMod(v + 1, 2) ELSE v

_apply_f_move(self) ==
    LET new_state == clone(self)
    IN  IF IsExc(new_state) THEN new_state
        ELSE IF ~InBounds(new_state, F_corner_cycle, F_edge_cycle)
        THEN IndexError
        ELSE [corner_perm |-> CycleArr(new_state.corner_perm, F_corner_cycle, Keep),
              corner_orient |-> CycleArr(new_state.corner_orient, F_corner_cycle, F_corner_twist),
              edge_perm |-> CycleArr(new_state.edge_perm, F_edge_cycle, Keep),
              edge_orient |-> CycleArr(new_state.edge_orient, F_edge_cycle, F_edge_flip)]

\* CubeState.apply_move : R, U, F and their wide aliases are implemented;
\* every other move (L, D, B, l, d, b) returns self.clone()
apply_move(self, move) ==
    CASE move \in {"R", "r"} -> _apply_r_move(self)
      [] move \in {"Rp", "rp"} ->
            Then(Then(_apply_r_move(self), _apply_r_move), _apply_r_move)
      [] move \in {"R2", "r2"} -> Then(_apply_r_move(self), _apply_r_move)
      [] move \in {"U", "u"} -> _apply_u_move(self)
      [] move \in {"Up", "up"} ->
            Then(Then(_apply_u_move(self), _apply_u_move), _apply_u_move)
      [] move \in {"U2", "u2"} -> Then(_apply_u_move(self), _apply_u_move)
      [] move \in {"F", "f"} -> _apply_f_move(self)
      [] move \in {"Fp", "fp"} ->
            Then(Then(_apply_f_move(self), _apply_f_move), _apply_f_move)
      [] move \in {"F2", "f2"} -> Then(_apply_f_move(self), _apply_f_move)
      [] OTHER -> clone(self)

\* Move.apply(state) where the state may be a propagating exception
MoveApply(move, state) ==
    IF IsExc(state) THEN state ELSE apply_move(state, move)

\* MoveSequence.apply_to
RECURSIVE apply_to(_, _)
apply_to(moves, state) ==
    IF Len(moves) = 0 THEN state
    ELSE apply_to(Tail(moves), MoveApply(Head(moves), state))

\* MoveSequence.inverse
RECURSIVE SeqInverse(_)
SeqInverse(moves) ==
    IF Len(moves) = 0 THEN <<>>
    ELSE Append(SeqInverse(Tail(moves)), inverse(Head(moves)))

----------------------------------------------------------------------------
(* core/cube_state.py : facelet conversion.                                *)

\* the centers list of to_facelets: face index 0..5 -> face letter
centers ==
    <<"U", "R", "F", "D", "L", "B">>

center_positions ==
    <<4, 13, 22, 31, 40, 49>>

\* (face1, pos1, face2, pos2, face3, pos3) of the corner positions 0..7
corner_facelets ==
    << <<0, 0, 1, 0, 2, 2>>,
       <<0, 2, 2, 0, 4, 2>>,
       <<0, 8, 4, 0, 5, 2>>,
       <<0, 6, 5, 0, 1, 2>>,
       <<3, 2, 2, 8, 1, 6>>,
       <<3, 0, 4, 8, 2, 6>>,
       <<3, 6, 5, 8, 4, 6>>,
       <<3, 8, 1, 8, 5, 6>> >>

\* (face1, pos1, face2, pos2) of the edge positions 0..11
edge_facelets ==
    << <<0, 1, 1, 1>>,
       <<0, 5, 2, 1>>,
       <<0, 7, 4, 1>>,
       <<0, 3, 5, 1>>,
       <<3, 1, 1, 7>>,
       <<3, 5, 2, 7>>,
       <<3, 7, 4, 7>>,
       <<3, 3, 5, 7>>,
       <<2, 5, 1, 3>>,
       <<2, 3, 4, 5>>,
       <<4, 3, 5, 5>>,
       <<5, 3, 1, 5>> >>

\* facelet index f*9 + p of slot k (0, 1, 2) of a row of a facelet table
Slot(row, k) ==
    row[2 * k + 1] * 9 + row[2 * k + 2]

\* face index of slot k of a row
SlotFace(row, k) ==
    row[2 * k + 1]

\* mutant of OrientedSlot: the rotation applied in the wrong direction
OrientedSlot_wrong_direction(j, orientation) ==
    PyMod(j + orientation, 3)

\* `solved_colors[(j - orientation) % 3]` : the slot of the solved cubie
\* whose colour shows in slot j of a corner twisted by `orientation`
OrientedSlot(j, orientation) ==
    PyMod(j - orientation, 3)

\* the loops of to_facelets index the orientation arrays with 0..7 and
\* 0..11 and the facelet tables with the entries of the permutation arrays:
\* a short array or an entry beyond the table raises IndexError (the arrays
\* of the model hold no negative entries)
FaceletIndexError(self) ==
    \/ Len(self.corner_perm) < 8 \/ Len(self.corner_orient) < 8
    \/ Len(self.edge_perm) < 12 \/ Len(self.edge_orient) < 12
    \/ \E i \in 1..8 : self.corner_perm[i] \notin 0..7
    \/ \E i \in 1..12 : self.edge_perm[i] \notin 0..11

\* CubeState.to_facelets(scheme); scheme maps a face letter to its colour.
\* Position i shows cubie corner_perm[i]; its solved colours are rotated by
\* the stored orientation (corners) or swapped when it is 1 (edges).
to_facelets(self, scheme) ==
    IF FaceletIndexError(self)
    THEN IndexError
    ELSE
    LET corner_colour(i, j) ==
            LET row == corner_facelets[self.corner_perm[i + 1] + 1]
                orientation == self.corner_orient[i + 1]
            IN  scheme[centers[SlotFace(row, OrientedSlot(j, orientation)) + 1]]
        edge_colour(i, j) ==
            LET row == edge_facelets[self.edge_perm[i + 1] + 1]
                orientation == self.edge_orient[i + 1]
                k == IF orientation = 1 THEN 1 - j ELSE j
            IN  scheme[centers[SlotFace(row, k) + 1]]
    IN  [q \in 1..54 |->
            LET p == q - 1
            IN  IF \E c \in 1..6 : center_positions[c] = p
                THEN scheme[centers[CHOOSE c \in 1..6 : center_positions[c] = p]]
                ELSE IF \E i \in 0..7, j \in 0..2 : Slot(corner_facelets[i + 1], j) = p
                THEN LET ij == CHOOSE ij \in (0..7) \X (0..2) :
                                  Slot(corner_facelets[ij[1] + 1], ij[2]) = p
                     IN  corner_colour(ij[1], ij[2])
                ELSE LET ij == CHOOSE ij \in (0..11) \X (0..1) :
                                  Slot(edge_facelets[ij[1] + 1], ij[2]) = p
                     IN  edge_colour(ij[1], ij[2])]

\* centre colours read from a facelet array
FaceletCenters(facelets) ==
    [c \in 1..6 |-> facelets[center_positions[c] + 1]]

\* the (cubie, orientation) pairs that the corner loop of from_facelets
\* accepts for position i: rotated_colors == solved_colors
CornerMatches(facelets, i) ==
    LET cen == FaceletCenters(facelets)
        colors == [k \in 0..2 |-> facelets[Slot(corner_facelets[i + 1], k) + 1]]
    IN  {jo \in (0..7) \X (0..2) :
            \A k \in 0..2 :
                colors[PyMod(k + jo[2], 3)]
                  = cen[SlotFace(corner_facelets[jo[1] + 1], k) + 1]}

\* the (cubie, orientation) pairs that the edge loop accepts for position i
EdgeMatches(facelets, i) ==
    LET cen == FaceletCenters(facelets)
        colors == [k \in 0..1 |-> facelets[Slot(edge_facelets[i + 1], k) + 1]]
    IN  {jo \in (0..11) \X (0..1) :
            \A k \in 0..1 :
                colors[IF jo[2] = 1 THEN 1 - k ELSE k]
                  = cen[SlotFace(edge_facelets[jo[1] + 1], k) + 1]}

\* the loops scan j upwards, then the orientation upwards, and stop at the
\* first match
FirstMatch(matches) ==
    CHOOSE jo \in matches :
        \A other \in matches :
            \/ jo[1] < other[1]
            \/ jo[1] = other[1] /\ jo[2] <= other[2]

\* CubeState.from_facelets
from_facelets(facelets) ==
    IF Len(facelets) # 54 THEN ValueError
    ELSE IF \E i \in 0..7 : CornerMatches(facelets, i) = {} THEN ValueError
    ELSE IF \E i \in 0..11 : EdgeMatches(facelets, i) = {} THEN ValueError
    ELSE CubeState(
           List([i \in 1..8 |-> FirstMatch(CornerMatches(facelets, i - 1))[1]]),
           List([i \in 1..8 |-> FirstMatch(CornerMatches(facelets, i - 1))[2]]),
           List([i \in 1..12 |-> FirstMatch(EdgeMatches(facelets, i - 1))[1]]),
           List([i \in 1..12 |-> FirstMatch(EdgeMatches(facelets, i - 1))[2]]))

\* core/color_scheme.py : the predefined schemes
DEFAULT_SCHEME ==
    ("U" :> "#FFFFFF" @@ "D" :> "#FFD500" @@ "F" :> "#009E60" @@
     "B" :> "#0046AD" @@ "R" :> "#C41E3A" @@ "L" :> "#FF5800")

CLASSIC_SCHEME ==
    ("U" :> "#FFFFFF" @@ "D" :> "#FFFF00" @@ "F" :> "#00FF00" @@
     "B" :> "#0000FF" @@ "R" :> "#FF0000" @@ "L" :> "#FFA500")

\* ColorScheme.__post_init__ checks the hex format only: a scheme may give
\* two faces the same colour, e.g. ColorScheme(D="#FFFFFF")
WhiteDownScheme ==
    [DEFAULT_SCHEME EXCEPT !["D"] = "#FFFFFF"]

Schemes ==
    {DEFAULT_SCHEME, CLASSIC_SCHEME, WhiteDownScheme}

DistinctColours(scheme) ==
    \A a, b \in DOMAIN scheme : a # b => scheme[a] # scheme[b]

----------------------------------------------------------------------------
(* core/validators.py                                                      *)

\* follow perm from j until a visited index: [visited, cycle_length]
RECURSIVE CycleWalk(_, _, _, _)
CycleWalk(perm, visited, j, cycle_length) ==
    IF j \in visited THEN [visited |-> visited, cycle_length |-> cycle_length]
    ELSE CycleWalk(perm, visited \cup {j}, perm[j + 1], cycle_length + 1)

RECURSIVE ParityLoop(_, _, _, _)
ParityLoop(perm, i, visited, parity) ==
    IF i >= Len(perm) THEN parity
    ELSE IF i \in visited THEN ParityLoop(perm, i + 1, visited, parity)
    ELSE LET w == CycleWalk(perm, visited, i, 0)
         IN  ParityLoop(perm, i + 1, w.visited,
                        IF w.cycle_length % 2 = 0 THEN 1 - parity ELSE parity)

\* _permutation_parity : number of even-length cycles, mod 2
_permutation_parity(perm) ==
    ParityLoop(perm, 0, {}, 0)

\* mutant of _is_valid_permutation: only the length is checked
_is_valid_permutation_length_only(perm, n) ==
    Len(perm) = n

_is_valid_permutation(perm, n) ==
    IF Len(perm) # n THEN FALSE
    ELSE 0..(n - 1) = {perm[k] : k \in 1..Len(perm)}

\* one error appended for each index whose value is outside `allowed`
RangeErrors(arr, allowed, msg) ==
    SelectSeq([k \in 1..Len(arr) |-> IF arr[k] \in allowed THEN "" ELSE msg],
              LAMBDA e : e # "")

OneIf(cond, msg) ==
    IF cond THEN <<msg>> ELSE <<>>

\* validate_cube_state : [valid, errors]; the messages are kept as tags
validate_cube_state(state) ==
    LET basic ==
            OneIf(Len(state.corner_perm) # 8, "corner_perm length") \o
            OneIf(Len(state.corner_orient) # 8, "corner_orient length") \o
            OneIf(Len(state.edge_perm) # 12, "edge_perm length") \o
            OneIf(Len(state.edge_orient) # 12, "edge_orient length") \o
            OneIf(~_is_valid_permutation(state.corner_perm, 8),
                  "Invalid corner permutation") \o
            OneIf(~_is_valid_permutation(state.edge_perm, 12),
                  "Invalid edge permutation") \o
            RangeErrors(state.corner_orient, {0, 1, 2}, "corner orientation range") \o
            RangeErrors(state.edge_orient, {0, 1}, "edge orientation range")
        advanced ==
            OneIf(PyMod(Sum(state.corner_orient), 3) # 0, "Invalid corner twist sum") \o
            OneIf(PyMod(Sum(state.edge_orient), 2) # 0, "Invalid edge flip sum") \o
            OneIf(_permutation_parity(state.corner_perm)
                     # _permutation_parity(state.edge_perm),
                  "parities must match")
    IN  IF basic # <<>> THEN [valid |-> FALSE, errors |-> basic]
        ELSE [valid |-> Len(advanced) = 0, errors |-> advanced]

\* Counter(facelets)[color]
Count(facelets, color) ==
    Cardinality({k \in 1..Len(facelets) : facelets[k] = color})

\* the keys of Counter(facelets), in the order of their first occurrence
CounterKeys(facelets) ==
    LET first == SelectSeq([k \in 1..Len(facelets) |-> k],
                           LAMBDA k : \A j \in 1..(k - 1) : facelets[j] # facelets[k])
    IN  [i \in 1..Len(first) |-> facelets[first[i]]]

\* an entry of the error list: the message as a tag, and the colour it names
Err(tag, color) ==
    <<tag, color>>

\* mutant of ColorCountErrors: only the first colour with a wrong count is
\* reported
ColorCountErrors_first_only(facelets) ==
    LET wrong == SelectSeq(CounterKeys(facelets), LAMBDA c : Count(facelets, c) # 9)
    IN  IF Len(wrong) = 0 THEN <<>>
        ELSE <<Err("Color appears wrong number of times", wrong[1])>>

\* `for color, count in color_counts.items(): if count != 9: errors.append`
ColorCountErrors(facelets) ==
    LET wrong == SelectSeq(CounterKeys(facelets), LAMBDA c : Count(facelets, c) # 9)
    IN  [i \in 1..Len(wrong) |-> Err("Color appears wrong number of times", wrong[i])]

\* mutant of AdvancedErrors: the checks stop at the first violated one
AdvancedErrors_fail_fast(cube_state) ==
    IF PyMod(Sum(cube_state.corner_orient), 3) # 0
    THEN <<Err("Invalid corner twist sum", "")>>
    ELSE IF PyMod(Sum(cube_state.edge_orient), 2) # 0
    THEN <<Err("Invalid edge flip sum", "")>>
    ELSE OneIf(_permutation_parity(cube_state.corner_perm)
                  # _permutation_parity(cube_state.edge_perm),
               Err("Corner and edge permutation parities must match", ""))

\* the three checks made on the converted state
AdvancedErrors(cube_state) ==
    OneIf(PyMod(Sum(cube_state.corner_orient), 3) # 0,
          Err("Invalid corner twist sum", "")) \o
    OneIf(PyMod(Sum(cube_state.edge_orient), 2) # 0,
          Err("Invalid edge flip sum", "")) \o
    OneIf(_permutation_parity(cube_state.corner_perm)
             # _permutation_parity(cube_state.edge_perm),
          Err("Corner and edge permutation parities must match", ""))

\* validate_facelets : [valid, errors]; only ValueError is caught around
\* the conversion
validate_facelets(facelets) ==
    IF Len(facelets) # 54
    THEN [valid |-> FALSE, errors |-> <<Err("Expected 54 facelets", "")>>]
    ELSE LET basic ==
                 OneIf(Len(CounterKeys(facelets)) # 6,
                       Err("Expected exactly 6 different colors", "")) \o
                 ColorCountErrors(facelets)
         IN  IF basic # <<>> THEN [valid |-> FALSE, errors |-> basic]
             ELSE LET cube_state == from_facelets(facelets)
                  IN  IF IsExc(cube_state)
                      THEN IF cube_state = ValueError
                           THEN [valid |-> FALSE,
                                 errors |-> <<Err("Invalid cube configuration", "")>>]
                           ELSE cube_state
                      ELSE LET advanced == AdvancedErrors(cube_state)
                           IN  [valid |-> Len(advanced) = 0, errors |-> advanced]

\* the corner_positions list of get_problematic_stickers
corner_positions ==
    << <<0, 9, 20>>, <<2, 18, 36>>, <<8, 38, 47>>, <<6, 45, 11>>,
       <<29, 24, 15>>, <<27, 42, 18>>, <<35, 51, 44>>, <<33, 17, 53>> >>

\* the edge_positions list of get_problematic_stickers
edge_positions ==
    << <<1, 10>>, <<5, 19>>, <<7, 37>>, <<3, 46>>,
       <<28, 16>>, <<32, 25>>, <<34, 43>>, <<30, 52>>,
       <<23, 14>>, <<21, 41>>, <<39, 50>>, <<48, 12>> >>

\* `problematic.extend(row)` for every row of a table: the indices added
Extended(table) ==
    UNION {{table[r][k] : k \in 1..Len(table[r])} : r \in 1..Len(table)}

\* get_problematic_stickers : `list(set(problematic))` holds each index once
\* in no specified order, so the set of its entries is kept.  from_facelets
\* raises nothing but ValueError; the except clause replaces what was
\* collected before it.
get_problematic_stickers(facelets) ==
    IF Len(facelets) # 54 THEN 0..(Len(facelets) - 1)
    ELSE LET wrong_colors == {facelets[k] : k \in {j \in 1..54 : Count(facelets, facelets[j]) # 9}}
             by_color == {i \in 0..53 : facelets[i + 1] \in wrong_colors}
             cube_state == from_facelets(facelets)
         IN  IF IsExc(cube_state)
             THEN {i \in 0..53 : \A c \in 1..6 : center_positions[c] # i}
             ELSE by_color
                    \cup (IF PyMod(Sum(cube_state.corner_orient), 3) # 0
                          THEN Extended(corner_positions) ELSE {})
                    \cup (IF PyMod(Sum(cube_state.edge_orient), 2) # 0
                          THEN Extended(edge_positions) ELSE {})

----------------------------------------------------------------------------
(* State of the model.                                                     *)

VARIABLES
    start,        \* cube: the CubeState the run began with
    cur,          \* cube: outcome of applying `done` to start (state or exception)
    done,         \* cube: the moves handed to apply so far
    scheme,       \* cube: colour scheme of the last to_facelets call
    facelets,     \* cube: result of to_facelets (List or exception), None before the call
    back,         \* cube: result of from_facelets(facelets), None before the call
    length,            \* scramble: the argument of generate_scramble
    scramble_moves,    \* scramble: the list being built
    last_face,         \* scramble: face of the previous move, "None" at first
    second_last_face,  \* scramble: face of the move before that
    scr_pc,            \* scramble: "call", "loop", "returned" or "raised"
    seq_moves,    \* simplify: MoveSequence.moves of the sequence being built
    simplified,   \* simplify: result of simplify() (List or exception), None before
    solve_env,    \* solver: when cancel() and the timeout strike during the call
    result,       \* solver: outcome of solve(cur), None before the call
    depth_limit,  \* solver: self.max_depth at the call
    ctor_args,        \* objects: the four arguments handed to CubeState(...)
    val_state,        \* objects: what the constructor gave, None before the call
    cloned,           \* objects: result of val_state.clone(), None before the call
    applied,          \* objects: result of val_state.apply_move(m), None before the call
    state_report,     \* objects: result of validate_cube_state(val_state)
    val_facelets,     \* objects: a facelet array (List), None before it is made
    facelets_report,  \* objects: result of validate_facelets(val_facelets)
    problematic,      \* objects: result of get_problematic_stickers(val_facelets)
    token,        \* parsing: the string handed to Move.from_string
    parsed,       \* parsing: its result (List of one move or exception), None before
    ida,          \* threads: locals and position of the thread running solve()
    _cancelled,   \* threads: IDAStarSolver._cancelled
    timed_out,    \* threads: time.time() - start_time > self.max_time holds
    cancel_log,   \* threads: what the solving thread did since cancel() was issued
    searches,     \* shared solver: locals and position of each thread running solve()
    solver_of,    \* shared solver: the IDAStarSolver instance each solve() runs on
    instances,    \* shared solver: the attributes of each IDAStarSolver instance
    requested,    \* shared solver: cancel() was called to stop this search
    generated,    \* pruning: last move of a path -> the moves _search tries after it
    anim,         \* playback: the attributes of the AnimationController
    last_op,      \* playback: the last operation called, and whether it raised
    shown         \* playback: result of the last get_current_state(), None before

cubeVars ==
    <<start, cur, done, scheme, facelets, back>>

scrVars ==
    <<length, scramble_moves, last_face, second_last_face, scr_pc>>

simpVars ==
    <<seq_moves, simplified>>

solveVars ==
    <<solve_env, result, depth_limit>>

objVars ==
    <<ctor_args, val_state, cloned, applied, state_report, val_facelets,
      facelets_report, problematic>>

parseVars ==
    <<token, parsed>>

runVars ==
    <<ida, _cancelled, timed_out, cancel_log>>

sharedVars ==
    <<searches, solver_of, instances, requested>>

pruneVars ==
    <<generated>>

playVars ==
    <<anim, last_op, shown>>

vars ==
    <<cubeVars, scrVars, simpVars, solveVars, objVars, parseVars, runVars,
      sharedVars, pruneVars, playVars>>

\* the parts of the state a specification does not use stay at rest
CubeIdle ==
    /\ start = solved
    /\ cur = solved
    /\ done = <<>>
    /\ scheme = [f \in {"U", "D", "F", "B", "R", "L"} |-> ""]
    /\ facelets = None
    /\ back = None

ScrIdle ==
    /\ length = 0
    /\ scramble_moves = <<>>
    /\ last_face = "None"
    /\ second_last_face = "None"
    /\ scr_pc = "idle"

SimpIdle ==
    /\ seq_moves = <<>>
    /\ simplified = None

SolveIdle ==
    /\ solve_env = [c |-> -1, t |-> -1]
    /\ result = None
    /\ depth_limit = 25

ObjIdle ==
    /\ ctor_args = [corner_perm |-> None, corner_orient |-> None,
                    edge_perm |-> None, edge_orient |-> None]
    /\ val_state = None
    /\ cloned = None
    /\ applied = None
    /\ state_report = None
    /\ val_facelets = None
    /\ facelets_report = None
    /\ problematic = None

ParseIdle ==
    /\ token = <<>>
    /\ parsed = None

RunIdle ==
    /\ ida = [pc |-> "idle", state |-> solved, depth |-> 0, bound |-> 0,
              stack |-> <<>>, call |-> None, visited |-> {}, outcome |-> None]
    /\ _cancelled = FALSE
    /\ timed_out = FALSE
    /\ cancel_log = [issued |-> FALSE, expanded |-> FALSE, iteration |-> FALSE]

SharedIdle ==
    /\ searches = <<>>
    /\ solver_of = <<>>
    /\ instances = <<>>
    /\ requested = <<>>

PruneIdle ==
    generated = <<>>

PlayIdle ==
    /\ anim = <<>>
    /\ last_op = <<>>
    /\ shown = None

----------------------------------------------------------------------------
(* Inputs of the cube specification.                                       *)

\* MoveSequence.parse on the whitespace-separated tokens of a string; the
\* strings parsed here hold valid tokens only
RECURSIVE parse(_)
parse(tokens) ==
    IF Len(tokens) = 0 THEN <<>>
    ELSE <<from_string(Head(tokens))>> \o parse(Tail(tokens))

\* "R U R' U'" (test_scramble_and_solve)
SexyTokens ==
    << <<"R">>, <<"U">>, <<"R", "'">>, <<"U", "'">> >>

\* "R U R' U' F R F' U F' U' F" (test_sequence_round_trip_application)
RoundTripTokens ==
    << <<"R">>, <<"U">>, <<"R", "'">>, <<"U", "'">>, <<"F">>, <<"R">>,
       <<"F", "'">>, <<"U">>, <<"F", "'">>, <<"U", "'">>, <<"F">> >>

TestSequences ==
    {parse(SexyTokens), parse(RoundTripTokens), <<"R", "L">>, <<"F">>, <<"U2", "D">>}

QuarterMoves ==
    {m \in BaseMoveSet : Len(move_map[m]) = 1 \/ move_map[m][2] = "'"}

HalfMoves ==
    BaseMoveSet \ QuarterMoves

\* the move sequences the cube specification applies
Scripts ==
    {<<m, inverse(m)>> : m \in Move}
      \cup {<<m, m, m, m>> : m \in QuarterMoves}
      \cup {<<m, m>> : m \in HalfMoves}
      \cup {s \o SeqInverse(s) : s \in TestSequences}

ScriptPrefixes ==
    UNION {{SubSeq(s, 1, n) : n \in 0..Len(s)} : s \in Scripts}

CornerPermInputs ==
    {Range(8),
     <<1, 0, 2, 3, 4, 5, 6, 7>>,
     <<1, 2, 0, 3, 4, 5, 6, 7>>,
     <<3, 1, 2, 7, 0, 5, 6, 4>>,
     <<7, 6, 5, 4, 3, 2, 1, 0>>,
     <<0, 0, 2, 3, 4, 5, 6, 7>>}

EdgePermInputs ==
    {Range(12),
     <<1, 0, 2, 3, 4, 5, 6, 7, 8, 9, 10, 11>>,
     <<0, 1, 2, 3, 5, 6, 4, 7, 8, 9, 10, 11>>,
     <<8, 1, 2, 3, 11, 5, 6, 7, 4, 9, 10, 0>>,
     <<11, 10, 9, 8, 7, 6, 5, 4, 3, 2, 1, 0>>,
     <<0, 1, 2, 3, 4, 5, 6, 7, 8, 9, 11, 11>>}

CornerOrientInputs ==
    {Zeros(8),
     <<1, 2, 0, 0, 0, 0, 0, 0>>,
     <<1, 1, 1, 0, 0, 0, 0, 0>>,
     <<2, 2, 2, 2, 2, 2, 0, 0>>,
     <<0, 0, 0, 0, 0, 0, 0, 1>>}

EdgeOrientInputs ==
    {Zeros(12),
     <<1, 1, 0, 0, 0, 0, 0, 0, 0, 0, 0, 0>>,
     <<0, 1, 0, 0, 0, 1, 0, 0, 1, 0, 0, 1>>,
     [k \in 1..12 |-> 1],
     <<0, 0, 0, 0, 0, 0, 0, 0, 0, 1, 0, 0>>}

\* states built with CubeState(corner_perm, corner_orient, edge_perm,
\* edge_orient) from Python lists; the constructor accepts legal and illegal
\* arrays alike
InputStates ==
    {CubeState(List(cp), List(co), List(ep), List(eo)) :
        cp \in CornerPermInputs, co \in CornerOrientInputs,
        ep \in EdgePermInputs, eo \in EdgeOrientInputs}

\* the states the move specification starts from
MoveInputStates ==
    {CubeState(List(cp), List(co), List(ep), List(eo)) :
        cp \in {Range(8), <<1, 0, 2, 3, 4, 5, 6, 7>>, <<3, 1, 2, 7, 0, 5, 6, 4>>,
                <<0, 0, 2, 3, 4, 5, 6, 7>>},
        co \in {Zeros(8), <<1, 2, 0, 0, 0, 0, 0, 0>>, <<0, 0, 0, 0, 0, 0, 0, 1>>},
        ep \in {Range(12), <<1, 0, 2, 3, 4, 5, 6, 7, 8, 9, 10, 11>>,
                <<8, 1, 2, 3, 11, 5, 6, 7, 4, 9, 10, 0>>},
        eo \in {Zeros(12), <<1, 1, 0, 0, 0, 0, 0, 0, 0, 0, 0, 0>>,
                <<0, 0, 0, 0, 0, 0, 0, 0, 0, 1, 0, 0>>}}

IsLegal(state) ==
    ~IsExc(state) /\ validate_cube_state(state).valid

----------------------------------------------------------------------------
(* The cube specification (move application) and the facelet             *)
(* specification (conversion to facelets and back).                        *)

CubeInit ==
    /\ start \in MoveInputStates
    /\ cur = start
    /\ done = <<>>
    /\ scheme = [f \in {"U", "D", "F", "B", "R", "L"} |-> ""]
    /\ facelets = None
    /\ back = None
    /\ ScrIdle
    /\ SimpIdle
    /\ SolveIdle
    /\ ObjIdle
    /\ ParseIdle
    /\ RunIdle
    /\ SharedIdle
    /\ PruneIdle
    /\ PlayIdle

\* one iteration of the loop of MoveSequence.apply_to (current_state =
\* move.apply(current_state)); an exception raised by an earlier iteration
\* is the outcome of the whole call
ApplyMove(m) ==
    /\ Append(done, m) \in ScriptPrefixes
    /\ cur' = MoveApply(m, cur)
    /\ done' = Append(done, m)
    /\ UNCHANGED <<start, scheme, facelets, back, scrVars, simpVars, solveVars,
                   objVars, parseVars, runVars, sharedVars, pruneVars,
                   playVars>>

\* facelets = state.to_facelets(scheme)
ToFacelets(c) ==
    /\ facelets = None
    /\ scheme' = c
    /\ facelets' = IF FaceletIndexError(cur) THEN IndexError
                   ELSE List(to_facelets(cur, c))
    /\ UNCHANGED <<start, cur, done, back, scrVars, simpVars, solveVars,
                   objVars, parseVars, runVars, sharedVars, pruneVars,
                   playVars>>

\* CubeState.from_facelets(facelets)
FromFacelets ==
    /\ facelets # None
    /\ ~IsExc(facelets)
    /\ back = None
    /\ back' = from_facelets(facelets.val)
    /\ UNCHANGED <<start, cur, done, scheme, facelets, scrVars, simpVars, solveVars,
                   objVars, parseVars, runVars, sharedVars, pruneVars,
                   playVars>>

CubeNext ==
    \E m \in Move : ApplyMove(m)

SpecCube ==
    CubeInit /\ [][CubeNext]_vars

FaceletInit ==
    /\ start \in InputStates
    /\ cur = start
    /\ done = <<>>
    /\ scheme = [f \in {"U", "D", "F", "B", "R", "L"} |-> ""]
    /\ facelets = None
    /\ back = None
    /\ ScrIdle
    /\ SimpIdle
    /\ SolveIdle
    /\ ObjIdle
    /\ ParseIdle
    /\ RunIdle
    /\ SharedIdle
    /\ PruneIdle
    /\ PlayIdle

FaceletNext ==
    \/ \E c \in Schemes : ToFacelets(c)
    \/ FromFacelets

SpecFacelets ==
    FaceletInit /\ [][FaceletNext]_vars

----------------------------------------------------------------------------
(* Claims about move application.                                          *)

\* C1 (inverse law, as claimed): after a move m and then m.inverse() have
\* been applied to a state s, the result is a state equal to s.
C1_InverseLaw ==
    (Len(done) = 2 /\ done[2] = inverse(done[1])) => StateEq(cur, start)

\* C2 (invariant preservation, as claimed): a move applied to a legal state
\* gives a legal state, and every state reached from solved() by a sequence
\* of moves passes validate_cube_state.
C2_InvariantPreservation ==
    /\ (IsLegal(start) /\ Len(done) = 1) => IsLegal(cur)
    /\ (start = solved /\ Len(done) >= 1) => IsLegal(cur)

\* C3 (group closure, as claimed): a quarter turn applied 4 times, or a half
\* turn applied 2 times, returns a state equal to the one it started from.
C3_GroupClosure ==
    /\ \A m \in QuarterMoves : done = <<m, m, m, m>> => StateEq(cur, start)
    /\ \A m \in HalfMoves : done = <<m, m>> => StateEq(cur, start)

\* C4 (sequence inverse law, as claimed): after a sequence and then its
\* inverse have been applied to a state s, the result is a state equal to s.
C4_SequenceInverseLaw ==
    \A s \in TestSequences : done = s \o SeqInverse(s) => StateEq(cur, start)

----------------------------------------------------------------------------
(* Claims about facelet conversion.                                        *)

\* C5 (facelet round trip, as claimed): for every legal state s and every
\* colour scheme c, from_facelets(s.to_facelets(c)) succeeds and equals s.
C5_RoundTripAnyScheme ==
    (IsLegal(start) /\ back # None) => StateEq(back, start)

\* C5 (amended): for every legal state s and every colour scheme c whose six
\* colours are pairwise distinct, from_facelets(s.to_facelets(c)) succeeds
\* and equals s.
C5_RoundTripDistinctScheme ==
    (IsLegal(start) /\ DistinctColours(scheme) /\ back # None)
        => StateEq(back, start)

\* a legal, unsolved state has been converted with a scheme of six distinct
\* colours and converted back
C5_Witness ==
    /\ IsLegal(start)
    /\ ~is_solved(start)
    /\ Sum(start.corner_orient) > 0
    /\ Sum(start.edge_orient) > 0
    /\ DistinctColours(scheme)
    /\ back # None
    /\ StateEq(back, start)

----------------------------------------------------------------------------
(* core/scramble.py : generate_scramble, one loop iteration per step.      *)

\* the keys of move_groups, in insertion order
faces ==
    <<"R", "L", "U", "D", "F", "B">>

move_groups ==
    ("R" :> <<"R", "Rp", "R2">> @@ "L" :> <<"L", "Lp", "L2">> @@
     "U" :> <<"U", "Up", "U2">> @@ "D" :> <<"D", "Dp", "D2">> @@
     "F" :> <<"F", "Fp", "F2">> @@ "B" :> <<"B", "Bp", "B2">>)

\* opposite_faces.get(face): "None" for a key that is absent
opposite_faces(face) ==
    CASE face = "R" -> "L" [] face = "L" -> "R"
      [] face = "U" -> "D" [] face = "D" -> "U"
      [] face = "F" -> "B" [] face = "B" -> "F"
      [] OTHER -> "None"

\* mutant of valid_faces: the exclusion of a face that would close an
\* X, opposite(X), X pattern is missing
valid_faces_no_sandwich_rule(last, second_last) ==
    SelectSeq(faces, LAMBDA face : face # last)

\* the valid_faces list built at the head of every iteration
valid_faces(last, second_last) ==
    SelectSeq(faces,
        LAMBDA face :
            /\ face # last
            /\ ~(/\ second_last # "None"
                 /\ last # "None"
                 /\ face = second_last
                 /\ opposite_faces(face) = last))

\* mutant of range_len: the loop runs one iteration short
range_len_one_short(n) ==
    IF n > 1 THEN n - 1 ELSE 0

\* len(range(length)) : the number of iterations of the for loop
range_len(n) ==
    IF n > 0 THEN n ELSE 0

\* _get_move_face : str(move)[0]
_get_move_face(move) ==
    move_map[move][1]

\* is_valid_scramble(scramble)
is_valid_scramble(scramble) ==
    IF Len(scramble) = 0 THEN TRUE
    ELSE IF \E i \in 1..(Len(scramble) - 1) :
                _get_move_face(scramble[i]) = _get_move_face(scramble[i + 1])
    THEN FALSE
    ELSE IF \E i \in 1..(Len(scramble) - 2) :
                /\ _get_move_face(scramble[i]) = _get_move_face(scramble[i + 2])
                /\ opposite_faces(_get_move_face(scramble[i]))
                      = _get_move_face(scramble[i + 1])
    THEN FALSE
    ELSE TRUE

ScrambleInit ==
    /\ length \in (-1)..MaxScramble
    /\ scramble_moves = <<>>
    /\ last_face = "None"
    /\ second_last_face = "None"
    /\ scr_pc = "call"
    /\ CubeIdle
    /\ SimpIdle
    /\ SolveIdle
    /\ ObjIdle
    /\ ParseIdle
    /\ RunIdle
    /\ SharedIdle
    /\ PruneIdle
    /\ PlayIdle

\* entry of generate_scramble: `if length <= 0: return MoveSequence([])`
ScrambleCall ==
    /\ scr_pc = "call"
    /\ scr_pc' = IF length <= 0 THEN "returned" ELSE "loop"
    /\ UNCHANGED <<length, scramble_moves, last_face, second_last_face,
                   cubeVars, simpVars, solveVars,
                   objVars, parseVars, runVars, sharedVars, pruneVars,
                   playVars>>

\* one iteration of the for loop; random.choice raises IndexError on an
\* empty list
ScrambleStep ==
    /\ scr_pc = "loop"
    /\ Len(scramble_moves) < range_len(length)
    /\ LET valid == valid_faces(last_face, second_last_face)
       IN  IF Len(valid) = 0
           THEN /\ scr_pc' = "raised"
                /\ UNCHANGED <<scramble_moves, last_face, second_last_face>>
           ELSE \E f \in 1..Len(valid) : \E k \in 1..3 :
                    LET chosen_face == valid[f]
                        chosen_move == move_groups[chosen_face][k]
                    IN  /\ scramble_moves' = Append(scramble_moves, chosen_move)
                        /\ second_last_face' = last_face
                        /\ last_face' = chosen_face
                        /\ scr_pc' = "loop"
    /\ UNCHANGED <<length, cubeVars, simpVars, solveVars,
                   objVars, parseVars, runVars, sharedVars, pruneVars,
                   playVars>>

\* the loop is exhausted: `return MoveSequence(scramble_moves)`
ScrambleReturn ==
    /\ scr_pc = "loop"
    /\ Len(scramble_moves) >= range_len(length)
    /\ scr_pc' = "returned"
    /\ UNCHANGED <<length, scramble_moves, last_face, second_last_face,
                   cubeVars, simpVars, solveVars,
                   objVars, parseVars, runVars, sharedVars, pruneVars,
                   playVars>>

ScrambleNext ==
    \/ ScrambleCall
    \/ ScrambleStep
    \/ ScrambleReturn

SpecScramble ==
    ScrambleInit /\ [][ScrambleNext]_vars

\* C8 (scramble legality): in the sequence returned for a length >= 2 no two
\* adjacent moves are on the same face and no three consecutive moves are
\* X, opposite(X), X; is_valid_scramble accepts every returned sequence.
C8_ScrambleLegality ==
    scr_pc = "returned" =>
        /\ is_valid_scramble(scramble_moves)
        /\ length >= 2 =>
            /\ \A i \in 1..(Len(scramble_moves) - 1) :
                  move_map[scramble_moves[i]][1] # move_map[scramble_moves[i + 1]][1]
            /\ \A i \in 1..(Len(scramble_moves) - 2) :
                  ~(/\ move_map[scramble_moves[i]][1] = move_map[scramble_moves[i + 2]][1]
                    /\ {move_map[scramble_moves[i]][1], move_map[scramble_moves[i + 1]][1]}
                          \in {{"R", "L"}, {"U", "D"}, {"F", "B"}})

\* a scramble of three moves has been returned whose first two moves are on
\* opposite faces, so that the third choice was made under both exclusions
C8_Witness ==
    /\ scr_pc = "returned"
    /\ length = 3
    /\ Len(scramble_moves) = 3
    /\ move_map[scramble_moves[1]][1] = "R"
    /\ move_map[scramble_moves[2]][1] = "L"

\* C9 (scramble length): generate_scramble(length) never fails; it returns
\* exactly `length` moves, all base face turns, for length >= 1, and the
\* empty sequence for length <= 0.
C9_ScrambleLength ==
    /\ scr_pc # "raised"
    /\ scr_pc = "loop" => Len(valid_faces(last_face, second_last_face)) > 0
    /\ scr_pc = "returned" =>
          /\ length >= 1 => Len(scramble_moves) = length
          /\ length <= 0 => scramble_moves = <<>>
          /\ \A i \in 1..Len(scramble_moves) : scramble_moves[i] \in BaseMoveSet

\* a scramble of the largest length of the model has been returned
C9_Witness ==
    /\ scr_pc = "returned"
    /\ length = MaxScramble
    /\ Len(scramble_moves) = MaxScramble

----------------------------------------------------------------------------
(* core/moves.py : MoveSequence.simplify.                                  *)

\* _get_face : the first character of str(move)
_get_face(move) ==
    move_map[move][1]

\* `c in move_str`
Contains(move_str, c) ==
    \E k \in 1..Len(move_str) : move_str[k] = c

_get_turn_count(move) ==
    IF Contains(move_map[move], "'") THEN -1
    ELSE IF Contains(move_map[move], "2") THEN 2
    ELSE 1

\* _create_move(face, count) : Move.from_string(f"{face}{suffix}"); a count
\* other than 1, -1, 2, or a token outside the table, raises ValueError
_create_move(face, count) ==
    IF count \notin {1, -1, 2} THEN ValueError
    ELSE LET suffix == CASE count = 1 -> <<>>
                         [] count = -1 -> <<"'">>
                         [] count = 2 -> <<"2">>
         IN  IF IsToken(<<face>> \o suffix)
             THEN List(<<from_string(<<face>> \o suffix)>>)
             ELSE ValueError

\* the inner while loop: j and count after the look-ahead from index j
\* (0-based) over the moves on `face`
RECURSIVE LookAhead(_, _, _, _)
LookAhead(moves, face, j, count) ==
    IF j < Len(moves) /\ _get_face(moves[j + 1]) = face
    THEN LookAhead(moves, face, j + 1, count + _get_turn_count(moves[j + 1]))
    ELSE [j |-> j, count |-> count]

\* mutant of NormalizeCount: three quarter turns are not mapped to -1
NormalizeCount_no_inverse(count) ==
    PyMod(count, 4)

\* `count = count % 4; if count == 3: count = -1`
NormalizeCount(count) ==
    IF PyMod(count, 4) = 3 THEN -1 ELSE PyMod(count, 4)

\* the outer while loop from index i (0-based) with the list built so far
RECURSIVE SimplifyLoop(_, _, _)
SimplifyLoop(moves, i, acc) ==
    IF i >= Len(moves) THEN List(acc)
    ELSE LET current_move == moves[i + 1]
             face == _get_face(current_move)
             la == LookAhead(moves, face, i + 1, _get_turn_count(current_move))
             count == NormalizeCount(la.count)
         IN  IF count = 0 THEN SimplifyLoop(moves, la.j, acc)
             ELSE LET made == _create_move(face, count)
                  IN  IF IsExc(made) THEN made
                      ELSE SimplifyLoop(moves, la.j, acc \o made.val)

\* MoveSequence.simplify : List(moves of the result) or an exception
simplify(moves) ==
    IF Len(moves) = 0 THEN List(<<>>) ELSE SimplifyLoop(moves, 0, <<>>)

\* the moves the simplify specification builds sequences from
SimplifyAlphabet ==
    {"R", "Rp", "R2", "U", "Up", "U2", "L", "r", "rp", "up"}

SimplifyInit ==
    /\ seq_moves = <<>>
    /\ simplified = None
    /\ CubeIdle
    /\ ScrIdle
    /\ SolveIdle
    /\ ObjIdle
    /\ ParseIdle
    /\ RunIdle
    /\ SharedIdle
    /\ PruneIdle
    /\ PlayIdle

\* MoveSequence.append(move)
SeqAppend(m) ==
    /\ simplified = None
    /\ Len(seq_moves) < MaxSimplify
    /\ seq_moves' = Append(seq_moves, m)
    /\ UNCHANGED <<simplified, cubeVars, scrVars, solveVars,
                   objVars, parseVars, runVars, sharedVars, pruneVars,
                   playVars>>

\* simplified = seq.simplify()
Simplify ==
    /\ simplified = None
    /\ simplified' = simplify(seq_moves)
    /\ UNCHANGED <<seq_moves, cubeVars, scrVars, solveVars,
                   objVars, parseVars, runVars, sharedVars, pruneVars,
                   playVars>>

SimplifyNext ==
    \/ \E m \in SimplifyAlphabet : SeqAppend(m)
    \/ Simplify

SpecSimplify ==
    SimplifyInit /\ [][SimplifyNext]_vars

\* the face and the number of clockwise quarter turns of a base move
BaseFace(m) ==
    CASE m \in {"R", "Rp", "R2"} -> "R" [] m \in {"L", "Lp", "L2"} -> "L"
      [] m \in {"U", "Up", "U2"} -> "U" [] m \in {"D", "Dp", "D2"} -> "D"
      [] m \in {"F", "Fp", "F2"} -> "F" [] m \in {"B", "Bp", "B2"} -> "B"

Quarters(m) ==
    CASE m \in {"R", "L", "U", "D", "F", "B"} -> 1
      [] m \in {"R2", "L2", "U2", "D2", "F2", "B2"} -> 2
      [] m \in {"Rp", "Lp", "Up", "Dp", "Fp", "Bp"} -> 3

\* the move of `face` that makes q quarter turns, nothing for q = 0
TurnOf(face, q) ==
    IF q = 0 THEN <<>>
    ELSE <<CHOOSE m \in BaseMoveSet : BaseFace(m) = face /\ Quarters(m) = q>>

\* the last index of the maximal run of one face that starts at index i
RunEnd(s, i) ==
    CHOOSE j \in i..Len(s) :
        /\ \A k \in i..j : BaseFace(s[k]) = BaseFace(s[i])
        /\ j = Len(s) \/ BaseFace(s[j + 1]) # BaseFace(s[i])

\* the runs from index i on, each replaced by its single turn
RECURSIVE RunsReplaced(_, _)
RunsReplaced(s, i) ==
    IF i > Len(s) THEN <<>>
    ELSE LET j == RunEnd(s, i)
         IN  TurnOf(BaseFace(s[i]), Sum([k \in 1..(j - i + 1) |-> Quarters(s[i + k - 1])]) % 4)
                \o RunsReplaced(s, j + 1)

\* C10 (simplification law): simplify replaces every maximal run of adjacent
\* base moves on one face by the single move whose quarter-turn count is the
\* run's sum mod 4 and keeps the order of the runs; R R R R, R R', R' R and
\* R2 R2 give the empty sequence, R R R gives R', R R gives R2.
C10_SimplificationLaw ==
    (simplified # None /\ \A k \in 1..Len(seq_moves) : seq_moves[k] \in BaseMoveSet)
        => /\ simplified = List(RunsReplaced(seq_moves, 1))
           /\ seq_moves \in {<<"R", "R", "R", "R">>, <<"R", "Rp">>, <<"Rp", "R">>,
                             <<"R2", "R2">>} => simplified = List(<<>>)
           /\ seq_moves = <<"R", "R", "R">> => simplified = List(<<"Rp">>)
           /\ seq_moves = <<"R", "R">> => simplified = List(<<"R2">>)

\* a sequence of two runs, the first of which sums to three quarter turns,
\* has been simplified
C10_Witness ==
    /\ seq_moves = <<"R", "R2", "U", "U">>
    /\ simplified = List(<<"Rp", "U2">>)

\* the face a move turns, whether the move is wide or not
FaceClass(m) ==
    CASE m \in {"R", "Rp", "R2", "r", "rp", "r2"} -> "R"
      [] m \in {"L", "Lp", "L2", "l", "lp", "l2"} -> "L"
      [] m \in {"U", "Up", "U2", "u", "up", "u2"} -> "U"
      [] m \in {"D", "Dp", "D2", "d", "dp", "d2"} -> "D"
      [] m \in {"F", "Fp", "F2", "f", "fp", "f2"} -> "F"
      [] m \in {"B", "Bp", "B2", "b", "bp", "b2"} -> "B"

\* the number of clockwise quarter turns of a move, wide or not
QuarterTurns(m) ==
    IF Len(move_map[m]) = 1 THEN 1
    ELSE IF move_map[m][2] = "2" THEN 2 ELSE 3

\* C11 (wide and non-wide moves of one face, as claimed): a sequence whose
\* moves all turn the same face, wide or not (R r, u' U, ...), is simplified
\* to a single run: nothing when the quarter turns sum to 0 mod 4, otherwise
\* one move of that face with the summed quarter-turn count.
C11_WideRunsCoalesced ==
    (/\ simplified # None
     /\ Len(seq_moves) >= 2
     /\ \A k \in 1..Len(seq_moves) : FaceClass(seq_moves[k]) = FaceClass(seq_moves[1]))
        => /\ ~IsExc(simplified)
           /\ LET q == Sum([k \in 1..Len(seq_moves) |-> QuarterTurns(seq_moves[k])]) % 4
              IN  IF q = 0 THEN simplified.val = <<>>
                  ELSE /\ Len(simplified.val) = 1
                       /\ FaceClass(simplified.val[1]) = FaceClass(seq_moves[1])
                       /\ QuarterTurns(simplified.val[1]) = q

----------------------------------------------------------------------------
(* solvers/research_ida.py : IDAStarSolver.                                *)

\* IDAStarSolver.max_depth
max_depth ==
    25

\* float('inf') : larger than every f = g + h the search can compute
Infinity ==
    1000000

\* The environment of one solve call.  c is the number of reads of
\* self._cancelled that still see False before another thread's cancel()
\* takes effect, t the number of `time.time() - start_time > self.max_time`
\* tests that are still false; -1 stands for never.  The clock is monotonic
\* and the flag is only reset on entry of solve, so once a counter is 0 it
\* stays 0.
Expired(n) ==
    n = 0

Consume(n) ==
    IF n > 0 THEN n - 1 ELSE n

\* Python's sum(1 for i, pos in enumerate(perm) if pos != i)
OutOfPlace(perm) ==
    Cardinality({k \in 1..Len(perm) : perm[k] # k - 1})

Max(a, b) ==
    IF a >= b THEN a ELSE b

\* _heuristic(state)
_heuristic(state) ==
    IF is_solved(state) THEN 0
    ELSE LET corner_twist == Sum(state.corner_orient)
             h1 == IF corner_twist > 0 THEN Max(0, (corner_twist + 2) \div 3) ELSE 0
             edge_flip == Sum(state.edge_orient)
             h2 == IF edge_flip > 0 THEN Max(h1, (edge_flip + 1) \div 2) ELSE h1
             corner_out_of_place == OutOfPlace(state.corner_perm)
             h3 == IF corner_out_of_place > 0
                   THEN Max(h2, (corner_out_of_place + 2) \div 3) ELSE h2
             edge_out_of_place == OutOfPlace(state.edge_perm)
             h4 == IF edge_out_of_place > 0
                   THEN Max(h3, (edge_out_of_place + 3) \div 4) ELSE h3
         IN  Max(h4, 1)

\* _is_redundant(move1, move2)
_is_redundant(move1, move2) ==
    LET face1 == move_map[move1][1]
        face2 == move_map[move2][1]
    IN  IF face1 = face2 THEN TRUE
        ELSE IF opposite_faces(face1) = face2 THEN TRUE
        ELSE FALSE

\* what _search hands back: a path (kind "list"), a bound (kind "num") or
\* a propagating exception (kind "raise"), with the visited set and the
\* environment as the call leaves them
SearchResult(kind, val, visited, env) ==
    [kind |-> kind, val |-> val, visited |-> visited, env |-> env]

RECURSIVE _search(_, _, _, _, _, _), SearchMoves(_, _, _, _, _, _, _, _)

\* the `for move in self.moves` loop of _search from index k (1-based) on
SearchMoves(state, g, bound, path, visited, env, k, min_bound) ==
    IF k > Len(BaseMoves)
    THEN SearchResult("num", min_bound, visited \ {state}, env)
    ELSE LET move == BaseMoves[k]
         IN  IF path # <<>> /\ _is_redundant(move, path[Len(path)])
             THEN SearchMoves(state, g, bound, path, visited, env, k + 1, min_bound)
             ELSE LET new_state == MoveApply(move, state)
                  IN  IF IsExc(new_state)
                      THEN SearchResult("raise", new_state, visited, env)
                      ELSE LET r == _search(new_state, g + 1, bound,
                                            Append(path, move), visited, env)
                           IN  CASE r.kind = "raise" -> r
                                 [] r.kind = "list" ->
                                      [r EXCEPT !.visited = r.visited \ {state}]
                                 [] OTHER ->
                                      SearchMoves(state, g, bound, path, r.visited,
                                                  r.env, k + 1,
                                                  IF r.val < min_bound
                                                  THEN r.val ELSE min_bound)

\* _search(state, g, bound, path, visited, start_time)
_search(state, g, bound, path, visited, env) ==
    IF Expired(env.c)
    THEN SearchResult("num", Infinity, visited, env)
    ELSE IF Expired(env.t)
    THEN SearchResult("num", Infinity, visited, [env EXCEPT !.c = Consume(@)])
    ELSE LET env2 == [c |-> Consume(env.c), t |-> Consume(env.t)]
             f == g + _heuristic(state)
         IN  IF f > bound THEN SearchResult("num", f, visited, env2)
             ELSE IF is_solved(state) THEN SearchResult("list", path, visited, env2)
             ELSE IF state \in visited
             THEN SearchResult("num", Infinity, visited, env2)
             ELSE SearchMoves(state, g, bound, path, visited \cup {state},
                              env2, 1, Infinity)

\* outcome of solve: the returned MoveSequence or the exception raised
Solution(moves) ==
    [kind |-> "solution", moves |-> moves]

Failure(msg) ==
    [kind |-> "raise", msg |-> msg]

\* the text of an exception raised by numpy inside move application
ExcMessage(e) ==
    IF e.exc = "ValueError"
    THEN "The truth value of an array with more than one element is ambiguous"
    ELSE "index is out of bounds"

\* the `for depth in range(1, self.max_depth + 1)` loop of solve
RECURSIVE DepthLoop(_, _, _, _, _)
DepthLoop(state, depth, bound, env, limit) ==
    IF depth > limit
    THEN Failure("No solution found within maximum depth")
    ELSE IF Expired(env.c) THEN Failure("Search cancelled by user")
    ELSE IF Expired(env.t) THEN Failure("Search timeout exceeded")
    ELSE LET r == _search(state, 0, bound, <<>>, {},
                          [c |-> Consume(env.c), t |-> Consume(env.t)])
         IN  CASE r.kind = "raise" -> Failure(ExcMessage(r.val))
               [] r.kind = "list" -> Solution(r.val)
               [] OTHER -> DepthLoop(state, depth + 1, r.val, r.env, limit)

\* IDAStarSolver.solve(state) in the environment env
solve(state, env, limit) ==
    IF is_solved(state) THEN Solution(<<>>)
    ELSE DepthLoop(state, 1, _heuristic(state), env, limit)

----------------------------------------------------------------------------
(* The solver specification: a cube is set up, moves of a script are       *)
(* applied to it, and solve is called on the outcome.                      *)

\* the state R U R' U' leads to from solved() by the cycles of
\* _apply_r_move and _apply_u_move, built with the constructor
SexyState ==
    CubeState(List(<<1, 0, 2, 7, 4, 5, 6, 3>>), List(Zeros(8)),
              List(<<8, 0, 2, 3, 4, 5, 6, 7, 1, 9, 10, 11>>), List(Zeros(12)))

SolveInputStates ==
    MoveInputStates \cup {SexyState}

\* the environments of the model: cancel() or the timeout strikes at one of
\* the first reads, or never
Strikes ==
    {-1, 0, 1, 2}

\* the values of self.max_depth the solver is run with: the default, and 1
DepthLimits ==
    {1, max_depth}

SolveInit ==
    /\ start \in SolveInputStates
    /\ cur = start
    /\ done = <<>>
    /\ scheme = [f \in {"U", "D", "F", "B", "R", "L"} |-> ""]
    /\ facelets = None
    /\ back = None
    /\ ScrIdle
    /\ SimpIdle
    /\ SolveIdle
    /\ ObjIdle
    /\ ParseIdle
    /\ RunIdle
    /\ SharedIdle
    /\ PruneIdle
    /\ PlayIdle

\* solution = solver.solve(cur); an exception raised while the cube was
\* set up never reaches the call
Solve(c, t, d) ==
    /\ result = None
    /\ ~IsExc(cur)
    /\ solve_env' = [c |-> c, t |-> t]
    /\ depth_limit' = d
    /\ result' = solve(cur, solve_env', d)
    /\ UNCHANGED <<cubeVars, scrVars, simpVars, objVars, parseVars, runVars,
                   sharedVars, pruneVars, playVars>>

SolveNext ==
    \/ \E m \in Move : result = None /\ ApplyMove(m)
    \/ \E c \in Strikes, t \in Strikes, d \in DepthLimits : Solve(c, t, d)

SpecSolve ==
    SolveInit /\ [][SolveNext]_vars

\* C6 (solver soundness): whenever solve returns a MoveSequence, applying it
\* to the input state yields the solved state, and the sequence returned for
\* an already solved input is empty.
C6_SolverSoundness ==
    (result # None /\ result.kind = "solution")
        => /\ StateEq(apply_to(result.moves, cur), solved)
           /\ StateEq(cur, solved) => result.moves = <<>>

\* solve has returned a MoveSequence
C6_Witness ==
    /\ result # None
    /\ result.kind = "solution"
    /\ StateEq(cur, solved)

\* C7 (solver success on the reference scramble, as claimed): R U R' U'
\* applied to the solved state yields a state, and solve on that state,
\* without cancellation or timeout and with the default max_depth, returns
\* a solution.
C7_ReferenceScrambleSolved ==
    /\ (start = solved /\ done = parse(SexyTokens)) => ~IsExc(cur)
    /\ (/\ done = <<>> /\ cur = SexyState
        /\ result # None /\ solve_env = [c |-> -1, t |-> -1]
        /\ depth_limit = max_depth)
          => result.kind = "solution"

----------------------------------------------------------------------------
(* The object specification: a CubeState is constructed from lists, it is  *)
(* validated and cloned, a move is applied to it or a facelet array is      *)
(* derived from it, edited as the colour input panel edits it, and          *)
(* validated.                                                               *)

\* the lists handed to the constructor, legal and illegal alike
CtorCornerPerms ==
    {List(Range(8)), List(<<1, 0, 2, 3, 4, 5, 6, 7>>),
     List(<<0, 0, 2, 3, 4, 5, 6, 7>>)}

CtorCornerOrients ==
    {List(Zeros(8)), List(<<1, 2, 0, 0, 0, 0, 0, 0>>),
     List(<<0, 0, 0, 0, 0, 0, 0, 1>>), List(<<0, 0, 0, 3, 0, 0, 0, 0>>)}

CtorEdgePerms ==
    {List(Range(12)), List(<<1, 0, 2, 3, 4, 5, 6, 7, 8, 9, 10, 11>>)}

CtorEdgeOrients ==
    {List(Zeros(12)), List(<<0, 0, 0, 0, 0, 0, 0, 0, 0, 1, 0, 0>>),
     List(<<2, 0, 0, 0, 0, 0, 0, 0, 0, 0, 0, 0>>)}

CtorArgs(cp, co, ep, eo) ==
    [corner_perm |-> cp, corner_orient |-> co, edge_perm |-> ep, edge_orient |-> eo]

\* the argument lists of the model: products of the lists above, the two
\* calls of test_invalid_cube_state_creation, single arrays of a wrong
\* length, a state with the corner UFL and the edge BR twice each (in place
\* of URF and BL: every colour still shows on 9 stickers), and CubeState()
CtorInputs ==
    {CtorArgs(cp, co, ep, eo) :
        cp \in CtorCornerPerms, co \in CtorCornerOrients,
        ep \in CtorEdgePerms, eo \in CtorEdgeOrients}
      \cup {CtorArgs(List(<<0, 1, 2>>), List(<<0, 0, 0>>),
                     List(<<0, 1, 2>>), List(<<0, 0, 0>>)),
            CtorArgs(List(Range(8)), List(<<0, 0, 0, 3, 0, 0, 0, 0>>),
                     List(Range(12)), List(Zeros(12))),
            CtorArgs(List(Range(7)), List(Zeros(8)), List(Range(12)), List(Zeros(12))),
            CtorArgs(List(Range(8)), List(Zeros(9)), List(Range(12)), List(Zeros(12))),
            CtorArgs(List(Range(8)), List(Zeros(8)), List(Range(12)), List(Zeros(11))),
            CtorArgs(List(<<1, 1, 2, 3, 4, 5, 6, 7>>), List(Zeros(8)),
                     List(<<0, 1, 2, 3, 4, 5, 6, 7, 8, 9, 11, 11>>), List(Zeros(12))),
            CtorArgs(None, None, None, None)}

\* the moves the object specification applies
ObjMoves ==
    {"R", "U2", "Fp", "L"}

\* self.facelets[facelet_index] = self.current_color
Overwrite(f, p, color) ==
    [f EXCEPT ![p + 1] = color]

\* two stickers exchanged (two edits of the panel)
Swap(f, p, q) ==
    [f EXCEPT ![p + 1] = f[q + 1], ![q + 1] = f[p + 1]]

\* the facelet indices the model edits, and the colours it paints
EditPositions ==
    {0, 10, 53}

EditColors ==
    {"#FFFFFF", "#C41E3A", "#0046AD", "#000000"}

\* pairs of stickers exchanged: the two stickers of the edge UR, two stickers
\* of the corner URF, the U stickers of the edges UR and UF
SwapPairs ==
    {<<1, 10>>, <<0, 9>>, <<1, 5>>}

\* the facelet arrays derived from the array f of a state
FaceletInputs(f) ==
    {f}
      \cup {Overwrite(f, p, c) : p \in EditPositions, c \in EditColors}
      \cup {Overwrite(Overwrite(f, 0, "#C41E3A"), 53, c) : c \in EditColors}
      \cup {Swap(f, pq[1], pq[2]) : pq \in SwapPairs}
      \cup {SubSeq(f, 1, 53), Append(f, "#FFFFFF")}

ObjInit ==
    /\ ctor_args \in CtorInputs
    /\ val_state = None
    /\ cloned = None
    /\ applied = None
    /\ state_report = None
    /\ val_facelets = None
    /\ facelets_report = None
    /\ problematic = None
    /\ CubeIdle
    /\ ScrIdle
    /\ SimpIdle
    /\ SolveIdle
    /\ ParseIdle
    /\ RunIdle
    /\ SharedIdle
    /\ PruneIdle
    /\ PlayIdle

\* val_state = CubeState(corner_perm, corner_orient, edge_perm, edge_orient)
Construct ==
    /\ val_state = None
    /\ val_state' = CubeState(ctor_args.corner_perm, ctor_args.corner_orient,
                              ctor_args.edge_perm, ctor_args.edge_orient)
    /\ UNCHANGED <<ctor_args, cloned, applied, state_report, val_facelets,
                   facelets_report, problematic, cubeVars, scrVars, simpVars, solveVars,
                   parseVars, runVars, sharedVars, pruneVars, playVars>>

\* validate_cube_state(val_state)
ValidateCubeState ==
    /\ val_state # None
    /\ ~IsExc(val_state)
    /\ state_report = None
    /\ state_report' = validate_cube_state(val_state)
    /\ UNCHANGED <<ctor_args, val_state, cloned, applied, val_facelets,
                   facelets_report, problematic, cubeVars, scrVars, simpVars, solveVars,
                   parseVars, runVars, sharedVars, pruneVars, playVars>>

\* val_state.clone()
Clone ==
    /\ state_report # None
    /\ cloned = None
    /\ cloned' = clone(val_state)
    /\ UNCHANGED <<ctor_args, val_state, applied, state_report, val_facelets,
                   facelets_report, problematic, cubeVars, scrVars, simpVars, solveVars,
                   parseVars, runVars, sharedVars, pruneVars, playVars>>

\* val_state.apply_move(m)
ApplyOnce(m) ==
    /\ cloned # None
    /\ applied = None
    /\ val_facelets = None
    /\ applied' = MoveApply(m, val_state)
    /\ UNCHANGED <<ctor_args, val_state, cloned, state_report, val_facelets,
                   facelets_report, problematic, cubeVars, scrVars, simpVars, solveVars,
                   parseVars, runVars, sharedVars, pruneVars, playVars>>

\* facelets = val_state.to_facelets(ColorScheme()), then edited
MakeFacelets ==
    /\ cloned # None
    /\ applied = None
    /\ val_facelets = None
    /\ IF FaceletIndexError(val_state)
       THEN val_facelets' = IndexError
       ELSE \E g \in FaceletInputs(to_facelets(val_state, DEFAULT_SCHEME)) :
                val_facelets' = List(g)
    /\ UNCHANGED <<ctor_args, val_state, cloned, applied, state_report,
                   facelets_report, problematic, cubeVars, scrVars, simpVars, solveVars,
                   parseVars, runVars, sharedVars, pruneVars, playVars>>

\* validate_facelets(self.facelets)
ValidateFacelets ==
    /\ val_facelets # None
    /\ ~IsExc(val_facelets)
    /\ facelets_report = None
    /\ facelets_report' = validate_facelets(val_facelets.val)
    /\ UNCHANGED <<ctor_args, val_state, cloned, applied, state_report,
                   val_facelets, problematic, cubeVars, scrVars, simpVars,
                   solveVars, parseVars, runVars, sharedVars, pruneVars,
                   playVars>>

\* the indices below n that are in `indices`, in ascending order
Ascending(indices, n) ==
    SelectSeq(Range(n), LAMBDA i : i \in indices)

\* get_problematic_stickers(self.facelets); the order of the returned list is
\* not specified, the model keeps it ascending
GetProblematicStickers ==
    /\ facelets_report # None
    /\ problematic = None
    /\ problematic' = List(Ascending(get_problematic_stickers(val_facelets.val),
                                      Len(val_facelets.val)))
    /\ UNCHANGED <<ctor_args, val_state, cloned, applied, state_report,
                   val_facelets, facelets_report, cubeVars, scrVars, simpVars,
                   solveVars, parseVars, runVars, sharedVars, pruneVars,
                   playVars>>

ObjNext ==
    \/ Construct
    \/ ValidateCubeState
    \/ Clone
    \/ \E m \in ObjMoves : ApplyOnce(m)
    \/ MakeFacelets
    \/ ValidateFacelets
    \/ GetProblematicStickers

SpecObjects ==
    ObjInit /\ [][ObjNext]_vars

----------------------------------------------------------------------------
(* Claims about the validators, the constructor and clone.                 *)

\* the elements of a list
Elems(s) ==
    {s[k] : k \in 1..Len(s)}

\* the colours of an array that do not occur exactly 9 times in it
WrongColors(f) ==
    {c \in Elems(f) : Count(f, c) # 9}

\* C12 (validator catches colour corruption): for every 54-entry facelet
\* array in which some colour does not occur exactly 9 times,
\* validate_facelets returns invalid and its error list holds a
\* colour-distribution error for each such colour.
C12_ColourCorruptionReported ==
    (/\ facelets_report # None
     /\ Len(val_facelets.val) = 54
     /\ WrongColors(val_facelets.val) # {})
        => /\ ~IsExc(facelets_report)
           /\ ~facelets_report.valid
           /\ \A c \in WrongColors(val_facelets.val) :
                 Err("Color appears wrong number of times", c)
                    \in Elems(facelets_report.errors)

\* an array with one colour 8 times and another 10 times has been validated
C12_Witness ==
    /\ facelets_report # None
    /\ Len(val_facelets.val) = 54
    /\ Count(val_facelets.val, "#FFFFFF") = 10
    /\ Count(val_facelets.val, "#C41E3A") = 8
    /\ Len(facelets_report.errors) = 2

\* parity of a permutation as the number of its inversions mod 2
InversionParity(perm) ==
    Cardinality({ij \in (1..Len(perm)) \X (1..Len(perm)) :
                    ij[1] < ij[2] /\ perm[ij[1]] > perm[ij[2]]}) % 2

\* 1 for a true condition, 0 otherwise
Indicator(cond) ==
    IF cond THEN 1 ELSE 0

\* C13 (validators accumulate): when a 54-entry array passes the count
\* checks and converts to cubie form, the error list of validate_facelets
\* holds exactly one entry for every violated invariant among corner-twist
\* sum mod 3, edge-flip sum mod 2 and parity match, and the boolean is True
\* exactly when the list is empty.
C13_ValidatorsAccumulate ==
    (/\ facelets_report # None
     /\ Len(val_facelets.val) = 54
     /\ WrongColors(val_facelets.val) = {}
     /\ Cardinality(Elems(val_facelets.val)) = 6
     /\ ~IsExc(from_facelets(val_facelets.val)))
        => LET s == from_facelets(val_facelets.val)
               twist == Sum(s.corner_orient) % 3 # 0
               flip == Sum(s.edge_orient) % 2 # 0
               parity == InversionParity(s.corner_perm) # InversionParity(s.edge_perm)
               errors == facelets_report.errors
           IN  /\ ~IsExc(facelets_report)
               /\ twist <=> Err("Invalid corner twist sum", "") \in Elems(errors)
               /\ flip <=> Err("Invalid edge flip sum", "") \in Elems(errors)
               /\ parity <=> Err("Corner and edge permutation parities must match", "")
                                \in Elems(errors)
               /\ Len(errors) = Indicator(twist) + Indicator(flip) + Indicator(parity)
               /\ facelets_report.valid <=> errors = <<>>

\* an array that converts to a state violating all three invariants has been
\* validated, and all three are reported
C13_Witness ==
    /\ facelets_report # None
    /\ ~IsExc(facelets_report)
    /\ Len(facelets_report.errors) = 3
    /\ facelets_report.errors[1] = Err("Invalid corner twist sum", "")

\* legality of a state, as the claim spells it out
Legal(s) ==
    /\ Len(s.corner_perm) = 8
    /\ Len(s.corner_orient) = 8
    /\ Len(s.edge_perm) = 12
    /\ Len(s.edge_orient) = 12
    /\ \A v \in 0..7 : Cardinality({k \in 1..8 : s.corner_perm[k] = v}) = 1
    /\ \A v \in 0..11 : Cardinality({k \in 1..12 : s.edge_perm[k] = v}) = 1
    /\ \A k \in 1..8 : s.corner_orient[k] \in {0, 1, 2}
    /\ \A k \in 1..12 : s.edge_orient[k] \in {0, 1}
    /\ Sum(s.corner_orient) % 3 = 0
    /\ Sum(s.edge_orient) % 2 = 0
    /\ InversionParity(s.corner_perm) = InversionParity(s.edge_perm)

\* C14 (validate_cube_state is exact): validate_cube_state(s) returns
\* (True, []) if and only if s is legal.
C14_ValidateCubeStateExact ==
    state_report # None
        => /\ (state_report = [valid |-> TRUE, errors |-> <<>>]) <=> Legal(val_state)
           /\ state_report.valid <=> state_report.errors = <<>>

\* a legal state with odd permutations and twisted corners was accepted
C14_Witness ==
    /\ state_report = [valid |-> TRUE, errors |-> <<>>]
    /\ val_state.corner_perm = <<1, 0, 2, 3, 4, 5, 6, 7>>
    /\ val_state.corner_orient = <<1, 2, 0, 0, 0, 0, 0, 0>>

\* C19 (purity of move application, as claimed): clone returns a state equal
\* to the one it is called on, and apply_move on a state with arrays of the
\* regular lengths returns a state, a value of its own.
C19_CloneAndApplyReturnStates ==
    /\ cloned # None => StateEq(cloned, val_state)
    /\ (/\ applied # None
        /\ Len(val_state.corner_perm) = 8 /\ Len(val_state.corner_orient) = 8
        /\ Len(val_state.edge_perm) = 12 /\ Len(val_state.edge_orient) = 12)
          => ~IsExc(applied)

\* the arguments have a wrong length or hold an orientation out of range
BadArgs(a) ==
    \/ a.corner_perm # None /\ Len(a.corner_perm.val) # 8
    \/ a.corner_orient # None /\ Len(a.corner_orient.val) # 8
    \/ a.edge_perm # None /\ Len(a.edge_perm.val) # 12
    \/ a.edge_orient # None /\ Len(a.edge_orient.val) # 12
    \/ \E k \in 1..Len(a.corner_orient.val) : a.corner_orient.val[k] \notin {0, 1, 2}
    \/ \E k \in 1..Len(a.edge_orient.val) : a.edge_orient.val[k] \notin {0, 1}

\* C20 (constructor validation, as claimed): constructing a CubeState from
\* arrays of a wrong length or with an out-of-range orientation value fails
\* with an error instead of producing a state object.
C20_ConstructorRejects ==
    (val_state # None /\ BadArgs(ctor_args)) => IsExc(val_state)

----------------------------------------------------------------------------
(* The parsing specification: Move.from_string is called on a string.      *)

\* the characters the strings of the model are made of
TokenChars ==
    {"R", "r", "U", "u", "'", "2", "X", " "}

MaxToken ==
    2

\* the strings of at most MaxToken characters
TokenInputs ==
    UNION {[1..n -> TokenChars] : n \in 0..MaxToken}

ParseInit ==
    /\ token \in TokenInputs
    /\ parsed = None
    /\ CubeIdle
    /\ ScrIdle
    /\ SimpIdle
    /\ SolveIdle
    /\ ObjIdle
    /\ RunIdle
    /\ SharedIdle
    /\ PruneIdle
    /\ PlayIdle

\* parsed = Move.from_string(token)
FromString ==
    /\ parsed = None
    /\ parsed' = IF IsToken(strip(token)) THEN List(<<from_string(token)>>)
                 ELSE from_string(token)
    /\ UNCHANGED <<token, cubeVars, scrVars, simpVars, solveVars, objVars, runVars,
                   sharedVars, pruneVars, playVars>>

ParseNext ==
    FromString

SpecParse ==
    ParseInit /\ [][ParseNext]_vars

\* C17 (case-insensitive parsing, as claimed): Move.from_string parses the
\* token "r" to Move.R and the token "u'" to Move.Up, the same moves as "R"
\* and "U'".
C17_CaseInsensitiveParsing ==
    parsed # None
        => /\ token = <<"r">> => parsed = List(<<"R">>)
           /\ token = <<"u", "'">> => parsed = List(<<"Up">>)
           /\ token = <<"R">> => parsed = List(<<"R">>)
           /\ token = <<"U", "'">> => parsed = List(<<"Up">>)

----------------------------------------------------------------------------
(* Claims about the single moves.                                          *)

\* perm holds every value of 0..n-1 exactly once
Bijection(perm, n) ==
    /\ Len(perm) = n
    /\ \A v \in 0..(n - 1) : Cardinality({k \in 1..n : perm[k] = v}) = 1

\* the position of `before` whose cubie stands at position k of `after`
CameFrom(before, after, k) ==
    CHOOSE j \in 1..Len(before) : before[j] = after[k]

\* `after` arises from the bijection `before` by moving exactly four
\* positions around one 4-cycle
FourCycle(before, after) ==
    /\ Len(after) = Len(before)
    /\ Bijection(after, Len(before))
    /\ LET moved == {k \in 1..Len(before) : CameFrom(before, after, k) # k}
       IN  /\ Cardinality(moved) = 4
           /\ \A k \in moved :
                 CameFrom(before, after, CameFrom(before, after, k)) # k

\* C18 (per-move semantics, as claimed): the clockwise quarter turn of each
\* of the six faces U, R, F, D, L, B, applied to a state with bijective
\* permutations, moves exactly four corner positions in one 4-cycle and
\* exactly four edge positions in one 4-cycle; applied to the solved state
\* it yields a state that is not solved.
C18_PerMoveSemantics ==
    (/\ Len(done) = 1
     /\ done[1] \in {"U", "R", "F", "D", "L", "B"}
     /\ Bijection(start.corner_perm, 8)
     /\ Bijection(start.edge_perm, 12))
        => /\ ~IsExc(cur)
           /\ FourCycle(start.corner_perm, cur.corner_perm)
           /\ FourCycle(start.edge_perm, cur.edge_perm)
           /\ start = solved => ~is_solved(cur)

----------------------------------------------------------------------------
(* Claims about the outcomes of the search.                                *)

\* the messages of the three failures solve raises itself
SearchCancelled ==
    "Search cancelled by user"

SearchTimeout ==
    "Search timeout exceeded"

DepthExceeded ==
    "No solution found within maximum depth"

\* C15 (search outcomes, as claimed): every call of solve ends with a
\* solution, SearchTimeout, SearchCancelled or DepthExceeded, and a failure
\* matches its cause: SearchCancelled only after cancel(), SearchTimeout only
\* after the time budget ran out, and DepthExceeded only when all max_depth
\* iterations completed without cancellation or timeout, so that a flag seen
\* set by _search in the last iteration is not reported as DepthExceeded.
C15_OutcomesMatchCause ==
    (result # None /\ result.kind = "raise")
        => /\ result.msg \in {SearchCancelled, SearchTimeout, DepthExceeded}
           /\ result.msg = SearchCancelled => solve_env.c # -1
           /\ result.msg = SearchTimeout => solve_env.t # -1
           /\ result.msg = DepthExceeded => solve_env = [c |-> -1, t |-> -1]

----------------------------------------------------------------------------
(* The thread specification: one thread runs solve(state) step by step,    *)
(* another thread may call cancel() at any moment, and the clock may pass   *)
(* the time budget.  A step of the search runs from one entry of _search to *)
(* the next entry of _search, or to the return to solve.                    *)

\* a _search invocation about to be entered
Call(state, g, path) ==
    [kind |-> "call", state |-> state, g |-> g, path |-> path]

\* what a _search invocation returned: a path ("list"), a bound ("num"), or
\* an exception on its way up ("raise")
Ret(kind, val) ==
    [kind |-> kind, val |-> val]

\* a _search invocation suspended in its for loop; k is the index (1-based)
\* of the move tried next
Frame(state, g, path, k, min_bound) ==
    [state |-> state, g |-> g, path |-> path, k |-> k, min_bound |-> min_bound]

\* the thread between two steps: stack of suspended invocations (innermost
\* last), the pending call or returned value, and the shared visited set
Between(stack, call, visited) ==
    [stack |-> stack, call |-> call, visited |-> visited]

\* the for loop of _search continued in frame fr above the frames `rest`:
\* redundant moves are skipped, the next move is applied and _search is
\* called on the outcome; the exhausted loop removes the state and returns
RECURSIVE ForLoop(_, _, _)
ForLoop(fr, rest, visited) ==
    IF fr.k > Len(BaseMoves)
    THEN Between(rest, Ret("num", fr.min_bound), visited \ {fr.state})
    ELSE LET move == BaseMoves[fr.k]
         IN  IF fr.path # <<>> /\ _is_redundant(move, fr.path[Len(fr.path)])
             THEN ForLoop([fr EXCEPT !.k = @ + 1], rest, visited)
             ELSE LET new_state == MoveApply(move, fr.state)
                  IN  IF IsExc(new_state)
                      THEN Between(rest, Ret("raise", new_state), visited)
                      ELSE Between(Append(rest, fr),
                                   Call(new_state, fr.g + 1, Append(fr.path, move)),
                                   visited)

\* entry of _search for the pending call c; stop is the value of
\* `self._cancelled or time.time() - start_time > self.max_time`
Invoke(c, stack, visited, stop, bound) ==
    IF stop THEN Between(stack, Ret("num", Infinity), visited)
    ELSE LET f == c.g + _heuristic(c.state)
         IN  IF f > bound THEN Between(stack, Ret("num", f), visited)
             ELSE IF is_solved(c.state) THEN Between(stack, Ret("list", c.path), visited)
             ELSE IF c.state \in visited
             THEN Between(stack, Ret("num", Infinity), visited)
             ELSE ForLoop(Frame(c.state, c.g, c.path, 1, Infinity), stack,
                          visited \cup {c.state})

\* the innermost suspended invocation receives the value r of its child
Resume(r, stack, visited) ==
    LET top == stack[Len(stack)]
        rest == SubSeq(stack, 1, Len(stack) - 1)
    IN  IF r.kind = "list"
        THEN Between(rest, r, visited \ {top.state})
        ELSE ForLoop([top EXCEPT !.k = @ + 1,
                                 !.min_bound = IF r.val < @ THEN r.val ELSE @],
                     rest, visited)

RunActive ==
    ida.pc \in {"entered", "reset", "loop", "search"}

\* solve(state) has just been entered; the flag may be left set by an
\* earlier cancel()
RunInit ==
    /\ ida \in {[pc |-> "entered", state |-> s, depth |-> 0, bound |-> 0,
                 stack |-> <<>>, call |-> None, visited |-> {}, outcome |-> None] :
                   s \in SolveInputStates}
    /\ _cancelled \in BOOLEAN
    /\ timed_out = FALSE
    /\ cancel_log = [issued |-> FALSE, expanded |-> FALSE, iteration |-> FALSE]
    /\ CubeIdle
    /\ ScrIdle
    /\ SimpIdle
    /\ SolveIdle
    /\ ObjIdle
    /\ ParseIdle
    /\ SharedIdle
    /\ PruneIdle
    /\ PlayIdle

\* `if state.is_solved(): return MoveSequence([])`
SolveEntry ==
    /\ ida.pc = "entered"
    /\ ida' = IF is_solved(ida.state)
              THEN [ida EXCEPT !.pc = "returned", !.outcome = Solution(<<>>)]
              ELSE [ida EXCEPT !.pc = "reset"]
    /\ UNCHANGED <<_cancelled, timed_out, cancel_log,
                   cubeVars, scrVars, simpVars, solveVars, objVars, parseVars,
                   sharedVars, pruneVars, playVars>>

\* `self._cancelled = False; start_time = time.time();
\*  bound = self._heuristic(state)`
SolveReset ==
    /\ ida.pc = "reset"
    /\ _cancelled' = FALSE
    /\ ida' = [ida EXCEPT !.pc = "loop", !.depth = 1, !.bound = _heuristic(ida.state)]
    /\ UNCHANGED <<timed_out, cancel_log,
                   cubeVars, scrVars, simpVars, solveVars, objVars, parseVars,
                   sharedVars, pruneVars, playVars>>

\* head of the for loop of solve: the loop is exhausted, or the two tests
\* are made and _search is called with an empty path and a fresh set
LoopHeader ==
    /\ ida.pc = "loop"
    /\ IF ida.depth > max_depth
       THEN /\ ida' = [ida EXCEPT !.pc = "raised",
                                  !.outcome = Failure("No solution found within maximum depth")]
            /\ UNCHANGED cancel_log
       ELSE IF _cancelled
       THEN /\ ida' = [ida EXCEPT !.pc = "raised",
                                  !.outcome = Failure("Search cancelled by user")]
            /\ UNCHANGED cancel_log
       ELSE IF timed_out
       THEN /\ ida' = [ida EXCEPT !.pc = "raised",
                                  !.outcome = Failure("Search timeout exceeded")]
            /\ UNCHANGED cancel_log
       ELSE /\ ida' = [ida EXCEPT !.pc = "search", !.stack = <<>>, !.visited = {},
                                  !.call = Call(ida.state, 0, <<>>)]
            /\ cancel_log' = [cancel_log EXCEPT !.iteration = @ \/ cancel_log.issued]
    /\ UNCHANGED <<_cancelled, timed_out,
                   cubeVars, scrVars, simpVars, solveVars, objVars, parseVars,
                   sharedVars, pruneVars, playVars>>

\* one step of the search: the pending call is entered, or the innermost
\* suspended invocation goes on with the value returned to it; an exception
\* raised by move.apply leaves solve, and the set as it was when it was raised
SearchStep ==
    /\ ida.pc = "search"
    /\ ida.call.kind = "call" \/ ida.stack # <<>>
    /\ LET b == IF ida.call.kind = "call"
                THEN Invoke(ida.call, ida.stack, ida.visited,
                            _cancelled \/ timed_out, ida.bound)
                ELSE Resume(ida.call, ida.stack, ida.visited)
       IN  ida' = IF b.call.kind = "raise"
                  THEN [ida EXCEPT !.pc = "raised", !.visited = b.visited,
                                   !.outcome = Failure(ExcMessage(b.call.val))]
                  ELSE [ida EXCEPT !.stack = b.stack, !.call = b.call,
                                   !.visited = b.visited]
    /\ cancel_log' = [cancel_log EXCEPT !.expanded =
                         @ \/ (/\ cancel_log.issued
                               /\ ida.call.kind = "call"
                               /\ ~(_cancelled \/ timed_out))]
    /\ UNCHANGED <<_cancelled, timed_out,
                   cubeVars, scrVars, simpVars, solveVars, objVars, parseVars,
                   sharedVars, pruneVars, playVars>>

\* _search has returned to solve: `return MoveSequence(result)`, or
\* `bound = result` and the next iteration
SearchDone ==
    /\ ida.pc = "search"
    /\ ida.call.kind # "call"
    /\ ida.stack = <<>>
    /\ ida' = IF ida.call.kind = "list"
              THEN [ida EXCEPT !.pc = "returned", !.outcome = Solution(ida.call.val)]
              ELSE [ida EXCEPT !.pc = "loop", !.bound = ida.call.val, !.depth = @ + 1]
    /\ UNCHANGED <<_cancelled, timed_out, cancel_log,
                   cubeVars, scrVars, simpVars, solveVars, objVars, parseVars,
                   sharedVars, pruneVars, playVars>>

\* another thread: solver.cancel(), while solve is running
Cancel ==
    /\ RunActive
    /\ ~cancel_log.issued
    /\ _cancelled' = TRUE
    /\ cancel_log' = [cancel_log EXCEPT !.issued = TRUE]
    /\ UNCHANGED <<ida, timed_out,
                   cubeVars, scrVars, simpVars, solveVars, objVars, parseVars,
                   sharedVars, pruneVars, playVars>>

\* the clock passes start_time + max_time
TimeBudgetExceeded ==
    /\ ida.pc \in {"loop", "search"}
    /\ ~timed_out
    /\ timed_out' = TRUE
    /\ UNCHANGED <<ida, _cancelled, cancel_log,
                   cubeVars, scrVars, simpVars, solveVars, objVars, parseVars,
                   sharedVars, pruneVars, playVars>>

RunNext ==
    \/ SolveEntry
    \/ SolveReset
    \/ LoopHeader
    \/ SearchStep
    \/ SearchDone
    \/ Cancel
    \/ TimeBudgetExceeded

SpecRun ==
    RunInit /\ [][RunNext]_vars

\* C16 (cooperative cancellation, as claimed): once cancel() has been issued
\* at any moment after solve() was entered, no _search invocation that
\* starts afterwards gets past its cancellation test (no f-test, no state
\* added to the visited set), and solve starts no further depth iteration.
C16_CancelTakesEffect ==
    cancel_log.issued => (~cancel_log.expanded /\ ~cancel_log.iteration)

----------------------------------------------------------------------------
(* Claims about get_problematic_stickers.                                  *)

\* the facelet indices from_facelets reads for the cubie positions of a table
TableStickers(table, slots) ==
    {Slot(table[r], k) : r \in 1..Len(table), k \in 0..(slots - 1)}

\* C21 (problematic stickers, as claimed): on a 54-entry array the result
\* holds (a) the index of every sticker whose colour does not occur 9 times,
\* also when the conversion fails; (b) when the conversion succeeds, all 24
\* corner sticker indices of from_facelets if the twist sum is not divisible
\* by 3, and all 24 edge sticker indices if the flip sum is odd; (c) when
\* the conversion fails, all 48 non-centre indices.
C21_ProblematicStickers ==
    (problematic # None /\ Len(val_facelets.val) = 54)
        => LET f == val_facelets.val
               s == from_facelets(f)
               got == Elems(problematic.val)
           IN  /\ \A i \in 0..53 : f[i + 1] \in WrongColors(f) => i \in got
               /\ ~IsExc(s) =>
                    /\ Sum(s.corner_orient) % 3 # 0
                          => TableStickers(corner_facelets, 3) \subseteq got
                    /\ Sum(s.edge_orient) % 2 # 0
                          => TableStickers(edge_facelets, 2) \subseteq got
               /\ IsExc(s) =>
                    (0..53) \ {center_positions[c] : c \in 1..6} \subseteq got

----------------------------------------------------------------------------
(* Claims about the depth budget and the heuristic.                        *)

\* the states one base move away from a state of `states`; a move that
\* raises leads nowhere
OneMoveFrom(states) ==
    {t \in {MoveApply(m, s) : m \in Move, s \in states} : ~IsExc(t)}

\* some sequence of at most n moves takes a state of `states` to solved
RECURSIVE SolvableWithin(_, _)
SolvableWithin(states, n) ==
    IF \E s \in states : is_solved(s) THEN TRUE
    ELSE IF n = 0 \/ states = {} THEN FALSE
    ELSE SolvableWithin(OneMoveFrom(states), n - 1)

\* C22 (depth budget, as claimed): every solution solve returns has at most
\* max_depth moves, and when no cancel and no timeout strikes, a state that
\* no sequence of at most max_depth moves solves ends with "No solution
\* found within maximum depth".
C22_DepthBudget ==
    result # None
        => /\ result.kind = "solution" => Len(result.moves) <= depth_limit
           /\ (/\ solve_env = [c |-> -1, t |-> -1]
               /\ ~SolvableWithin({cur}, depth_limit))
                 => result = Failure(DepthExceeded)

\* an array after n rotations along a 4-cycle, as the loops of
\* _apply_r_move and _apply_u_move leave it
RECURSIVE Rotated(_, _, _)
Rotated(arr, cycle, n) ==
    IF n = 0 THEN arr ELSE Rotated(CycleArr(arr, cycle, Keep), cycle, n - 1)

\* the state whose arrays are those of solved() after n rotations along the
\* cycles of a face turn that keeps the orientations (R, U), built with the
\* constructor
Turned(corner_cycle, edge_cycle, n) ==
    CubeState(List(Rotated(Range(8), corner_cycle, n)), List(Zeros(8)),
              List(Rotated(Range(12), edge_cycle, n)), List(Zeros(12)))

\* the states R, R2, R', U, U2, U' are defined to lead to from solved():
\* each is one base move away from solved
OneMoveFromSolved ==
    {Turned(R_corner_cycle, R_edge_cycle, n) : n \in 1..3}
      \cup {Turned(U_corner_cycle, U_edge_cycle, n) : n \in 1..3}

\* C23 (heuristic admissibility, as claimed): the first bound of solve,
\* _heuristic(state), is at most 1 for every state one base move away from
\* solved, and it is 0 exactly when the state is solved.
C23_HeuristicAdmissible ==
    (ida.pc = "loop" /\ ida.depth = 1)
        => /\ ida.state \in OneMoveFromSolved => ida.bound <= 1
           /\ ida.bound = 0 <=> is_solved(ida.state)

----------------------------------------------------------------------------
(* Claims about the search: visited set, bounds, pruning.                  *)

\* the states of the suspended _search invocations: the current path
OnPath(stack) ==
    {stack[i].state : i \in 1..Len(stack)}

\* C24 (path-scoped membership set, as claimed): while _search runs, the
\* visited set is exactly the set of the states on the current path above
\* the current node, and whenever the top-level _search call has been left,
\* on any exit path, the set is empty again.
C24_PathScopedSet ==
    /\ ida.pc = "search" => ida.visited = OnPath(ida.stack)
    /\ (ida.pc \in {"loop", "returned", "raised"} /\ ida.depth >= 1)
          => ida.visited = {}

\* C25 (bound raising, as claimed): the first bound is _heuristic(start),
\* and a depth iteration that ends while neither cancel() nor the timeout
\* has struck either returns a solution or hands solve a larger bound for
\* the next iteration, of which at most max_depth are run.
C25_BoundRaising ==
    [][/\ (ida.pc = "reset" /\ ida'.pc = "loop")
            => ida'.bound = _heuristic(ida.state)
       /\ (/\ ida.pc = "search" /\ ida'.pc # "search"
           /\ ~_cancelled' /\ ~timed_out')
            => \/ ida'.pc = "returned"
               \/ /\ ida'.pc = "loop"
                  /\ ida'.bound > ida.bound
                  /\ ida'.depth = ida.depth + 1
                  /\ ida.depth <= max_depth]_vars

----------------------------------------------------------------------------
(* The shared-solver specification: two threads run solve() at the same    *)
(* time, on one IDAStarSolver instance or on two, and cancel() is called   *)
(* to stop one search or the other.                                         *)

Searches ==
    {1, 2}

Solvers ==
    {1, 2}

SharedInputStates ==
    {solved, SexyState}

\* the thread of search i has just entered solve
Entered(s) ==
    [pc |-> "entered", state |-> s, depth |-> 0, bound |-> 0,
     stack |-> <<>>, call |-> None, visited |-> {}, outcome |-> None]

\* IDAStarSolver.__init__ : `self._cancelled = False`
NewSolver ==
    [_cancelled |-> FALSE]

SharedInit ==
    /\ searches \in [Searches -> {Entered(s) : s \in SharedInputStates}]
    /\ solver_of \in {[i \in Searches |-> 1], [i \in Searches |-> i]}
    /\ instances = [k \in Solvers |-> NewSolver]
    /\ requested = [i \in Searches |-> FALSE]
    /\ CubeIdle
    /\ ScrIdle
    /\ SimpIdle
    /\ SolveIdle
    /\ ObjIdle
    /\ ParseIdle
    /\ RunIdle
    /\ PruneIdle
    /\ PlayIdle

\* `if state.is_solved(): return MoveSequence([])`
SharedEntry(i) ==
    /\ searches[i].pc = "entered"
    /\ searches' = [searches EXCEPT ![i] =
                       IF is_solved(@.state)
                       THEN [@ EXCEPT !.pc = "returned", !.outcome = Solution(<<>>)]
                       ELSE [@ EXCEPT !.pc = "reset"]]
    /\ UNCHANGED <<solver_of, instances, requested, cubeVars, scrVars, simpVars,
                   solveVars, objVars, parseVars, runVars, pruneVars,
                   playVars>>

\* `self._cancelled = False; bound = self._heuristic(state)`
SharedReset(i) ==
    /\ searches[i].pc = "reset"
    /\ instances' = [instances EXCEPT ![solver_of[i]]._cancelled = FALSE]
    /\ searches' = [searches EXCEPT ![i] =
                       [@ EXCEPT !.pc = "loop", !.depth = 1,
                                 !.bound = _heuristic(searches[i].state)]]
    /\ UNCHANGED <<solver_of, requested, cubeVars, scrVars, simpVars,
                   solveVars, objVars, parseVars, runVars, pruneVars,
                   playVars>>

\* head of the for loop of solve (the time budget is not exceeded here)
SharedLoopHeader(i) ==
    /\ searches[i].pc = "loop"
    /\ searches' = [searches EXCEPT ![i] =
          IF @.depth > max_depth
          THEN [@ EXCEPT !.pc = "raised", !.outcome = Failure(DepthExceeded)]
          ELSE IF instances[solver_of[i]]._cancelled
          THEN [@ EXCEPT !.pc = "raised", !.outcome = Failure(SearchCancelled)]
          ELSE [@ EXCEPT !.pc = "search", !.stack = <<>>, !.visited = {},
                         !.call = Call(searches[i].state, 0, <<>>)]]
    /\ UNCHANGED <<solver_of, instances, requested, cubeVars, scrVars, simpVars,
                   solveVars, objVars, parseVars, runVars, pruneVars,
                   playVars>>

\* one step of the search of thread i
SharedSearchStep(i) ==
    /\ searches[i].pc = "search"
    /\ searches[i].call.kind = "call" \/ searches[i].stack # <<>>
    /\ LET me == searches[i]
           b == IF me.call.kind = "call"
                THEN Invoke(me.call, me.stack, me.visited,
                            instances[solver_of[i]]._cancelled, me.bound)
                ELSE Resume(me.call, me.stack, me.visited)
       IN  searches' = [searches EXCEPT ![i] =
              IF b.call.kind = "raise"
              THEN [@ EXCEPT !.pc = "raised", !.visited = b.visited,
                             !.outcome = Failure(ExcMessage(b.call.val))]
              ELSE [@ EXCEPT !.stack = b.stack, !.call = b.call,
                             !.visited = b.visited]]
    /\ UNCHANGED <<solver_of, instances, requested, cubeVars, scrVars, simpVars,
                   solveVars, objVars, parseVars, runVars, pruneVars,
                   playVars>>

\* _search has returned to solve in thread i
SharedSearchDone(i) ==
    /\ searches[i].pc = "search"
    /\ searches[i].call.kind # "call"
    /\ searches[i].stack = <<>>
    /\ searches' = [searches EXCEPT ![i] =
          IF @.call.kind = "list"
          THEN [@ EXCEPT !.pc = "returned", !.outcome = Solution(searches[i].call.val)]
          ELSE [@ EXCEPT !.pc = "loop", !.bound = searches[i].call.val,
                         !.depth = @ + 1]]
    /\ UNCHANGED <<solver_of, instances, requested, cubeVars, scrVars, simpVars,
                   solveVars, objVars, parseVars, runVars, pruneVars,
                   playVars>>

\* cancel() is called on the solver of search i, to stop search i
CancelSearch(i) ==
    /\ searches[i].pc \in {"entered", "reset", "loop", "search"}
    /\ ~requested[i]
    /\ instances' = [instances EXCEPT ![solver_of[i]]._cancelled = TRUE]
    /\ requested' = [requested EXCEPT ![i] = TRUE]
    /\ UNCHANGED <<searches, solver_of, cubeVars, scrVars, simpVars,
                   solveVars, objVars, parseVars, runVars, pruneVars,
                   playVars>>

SharedNext ==
    \E i \in Searches :
        \/ SharedEntry(i)
        \/ SharedReset(i)
        \/ SharedLoopHeader(i)
        \/ SharedSearchStep(i)
        \/ SharedSearchDone(i)
        \/ CancelSearch(i)

SpecShared ==
    SharedInit /\ [][SharedNext]_vars

\* C26 (independence of concurrent searches, as claimed): of two solve calls
\* running at the same time, on two instances or on one, a search ends as
\* cancelled only if cancel() was called to stop it, and while a search for
\* which cancel() was called is still running the flag it reads is cleared
\* by no step other than its own.
C26_SearchesIndependent ==
    /\ [](\A i \in Searches :
            searches[i].outcome = Failure(SearchCancelled) => requested[i])
    /\ [][\A i \in Searches :
            (/\ requested[i]
             /\ searches[i].pc \in {"entered", "reset", "loop", "search"}
             /\ instances[solver_of[i]]._cancelled
             /\ ~instances'[solver_of[i]]._cancelled)
               => searches'[i] # searches[i]]_vars

----------------------------------------------------------------------------
(* The pruning specification: the for loop of _search decides, for a path  *)
(* ending in a given move, which moves it tries next.                      *)

\* the number of last moves the loop is run for
MaxExpanded ==
    2

PruneInit ==
    /\ generated = <<>>
    /\ CubeIdle
    /\ ScrIdle
    /\ SimpIdle
    /\ SolveIdle
    /\ ObjIdle
    /\ ParseIdle
    /\ RunIdle
    /\ SharedIdle
    /\ PlayIdle

\* `for move in self.moves: if path and self._is_redundant(move, path[-1]):
\*  continue` for a path ending in `last`: the moves that are not skipped
TryAfter(last) ==
    /\ last \notin DOMAIN generated
    /\ Cardinality(DOMAIN generated) < MaxExpanded
    /\ generated' = [m \in DOMAIN generated \cup {last} |->
                        IF m = last
                        THEN {BaseMoves[k] : k \in {j \in 1..Len(BaseMoves) :
                                 ~_is_redundant(BaseMoves[j], last)}}
                        ELSE generated[m]]
    /\ UNCHANGED <<cubeVars, scrVars, simpVars, solveVars, objVars, parseVars,
                   runVars, sharedVars, playVars>>

PruneNext ==
    \E last \in BaseMoveSet : TryAfter(last)

SpecPrune ==
    PruneInit /\ [][PruneNext]_vars

\* the face letter of a base move
FaceOf(m) ==
    move_map[m][1]

\* the six faces in opposite pairs
OppositePairs ==
    {<<"R", "L">>, <<"U", "D">>, <<"F", "B">>}

\* C27 (move pruning, as claimed): no move is tried directly after a move of
\* the same face, and of two moves a, b of opposite faces exactly one of the
\* orders (a then b, b then a) is tried.
C27_MovePruning ==
    /\ \A a \in DOMAIN generated : \A m \in generated[a] : FaceOf(m) # FaceOf(a)
    /\ \A a, b \in DOMAIN generated :
          (\E xy \in OppositePairs : {FaceOf(a), FaceOf(b)} = {xy[1], xy[2]})
             => (b \in generated[a]) # (a \in generated[b])

----------------------------------------------------------------------------
(* Claims relating the two validators.                                     *)

\* C28 (validation implies legality, as claimed): whenever validate_facelets
\* returns (True, []) for an array, the state from_facelets gives for it is
\* legal, its permutations being bijections, and validate_cube_state
\* returns (True, []) for it.
C28_ValidFaceletsLegalState ==
    (facelets_report # None /\ facelets_report = [valid |-> TRUE, errors |-> <<>>])
        => LET s == from_facelets(val_facelets.val)
           IN  /\ ~IsExc(s)
               /\ Legal(s)
               /\ validate_cube_state(s) = [valid |-> TRUE, errors |-> <<>>]

----------------------------------------------------------------------------
(* Claims about the effect of a simplified sequence.                       *)

\* C29 (simplify preserves the effect, as claimed): for a sequence over the
\* base moves, applying seq.simplify() to a state has the same outcome as
\* applying seq to it.
C29_SimplifyPreservesEffect ==
    (/\ simplified # None
     /\ ~IsExc(simplified)
     /\ \A k \in 1..Len(seq_moves) : seq_moves[k] \in BaseMoveSet)
        => \A s \in {solved, SexyState} :
              apply_to(simplified.val, s) = apply_to(seq_moves, s)

----------------------------------------------------------------------------
(* ui/playback/animation_controller.py : AnimationController.              *)

\* AnimationController.__init__ ; timer_active is playback_timer.isActive()
NewController ==
    [sequence |-> <<>>, initial_state |-> solved, state_history |-> <<>>,
     current_step |-> 0, is_playing |-> FALSE, is_paused |-> FALSE,
     timer_active |-> FALSE]

\* what a method leaves behind: the controller, and whether it raised
Outcome(ctl, raised) ==
    [ctl |-> ctl, raised |-> raised]

\* the loop of _compute_state_history over the moves from index k on
RECURSIVE HistoryLoop(_, _, _, _)
HistoryLoop(history, current_state, moves, k) ==
    IF k > Len(moves) THEN List(history)
    ELSE Then(MoveApply(moves[k], current_state),
              LAMBDA next_state :
                 Then(clone(next_state),
                      LAMBDA snapshot :
                         HistoryLoop(Append(history, snapshot), next_state,
                                     moves, k + 1)))

\* _compute_state_history : the new list, or the exception raised before
\* self.state_history is (fully) built
_compute_state_history(self) ==
    Then(clone(self.initial_state),
         LAMBDA first : HistoryLoop(<<first>>, first, self.sequence, 1))

stop(self) ==
    [self EXCEPT !.timer_active = FALSE, !.is_playing = FALSE,
                 !.is_paused = FALSE, !.current_step = 0]

_finish_playback(self) ==
    [self EXCEPT !.timer_active = FALSE, !.is_playing = FALSE,
                 !.is_paused = FALSE]

\* the end of load_sequence: an exception of _compute_state_history leaves
\* the controller with the new sequence and the old history
Computed(assigned, history) ==
    IF IsExc(history) THEN Outcome(assigned, TRUE)
    ELSE Outcome([assigned EXCEPT !.state_history = history.val,
                                  !.current_step = 0], FALSE)

Assigned(assigned) ==
    Computed(assigned, _compute_state_history(assigned))

\* load_sequence(sequence, initial_state)
load_sequence(self, sequence, initial_state) ==
    Assigned([stop(self) EXCEPT !.sequence = sequence,
                                !.initial_state = initial_state])

play(self) ==
    IF Len(self.sequence) = 0 THEN self
    ELSE [self EXCEPT !.current_step = IF @ >= Len(self.sequence) THEN 0 ELSE @,
                      !.is_playing = TRUE, !.is_paused = FALSE,
                      !.timer_active = TRUE]

pause(self) ==
    IF ~self.is_playing THEN self
    ELSE [self EXCEPT !.is_paused = TRUE, !.timer_active = FALSE]

resume(self) ==
    IF ~self.is_paused THEN self
    ELSE [self EXCEPT !.is_paused = FALSE, !.timer_active = TRUE]

Min(a, b) ==
    IF a <= b THEN a ELSE b

step_forward(self) ==
    LET stepped ==
            IF self.current_step < Len(self.sequence)
            THEN LET advanced == [self EXCEPT !.current_step = @ + 1]
                 IN  IF advanced.current_step >= Len(self.sequence)
                     THEN _finish_playback(advanced) ELSE advanced
            ELSE self
    IN  [stepped EXCEPT !.current_step = Min(@, Len(self.sequence))]

step_back(self) ==
    LET stepped == IF self.current_step > 0
                   THEN [self EXCEPT !.current_step = @ - 1] ELSE self
    IN  [stepped EXCEPT !.current_step = Max(0, @)]

\* seek_to(step_index) for an int
seek_to(self, step_index) ==
    LET moved == [self EXCEPT !.current_step =
                     Max(0, Min(step_index, Len(self.sequence)))]
    IN  IF moved.is_playing /\ ~moved.is_paused
        THEN IF moved.current_step >= Len(moved.sequence)
             THEN _finish_playback(moved)
             ELSE IF moved.current_step = 0 /\ Len(moved.sequence) > 0
             THEN [moved EXCEPT !.timer_active = TRUE]
             ELSE moved
        ELSE moved

\* the timer's timeout slot
_advance_step(self) ==
    IF self.current_step < Len(self.sequence)
    THEN step_forward(self) ELSE _finish_playback(self)

\* list.insert(position, move): the index is clamped to the list
ListInsert(moves, position, move) ==
    LET n == Len(moves)
        at == IF position < 0 THEN Max(0, n + position) ELSE Min(position, n)
    IN  SubSeq(moves, 1, at) \o <<move>> \o SubSeq(moves, at + 1, n)

\* list.pop(position) for 0 <= position < len
ListPop(moves, position) ==
    SubSeq(moves, 1, position) \o SubSeq(moves, position + 2, Len(moves))

\* insert_move(move, position); the caller passes current_step for None
Inserted(loaded, position) ==
    IF loaded.raised THEN loaded
    ELSE Outcome([loaded.ctl EXCEPT !.current_step =
                     IF position <= loaded.ctl.current_step THEN @ + 1 ELSE @],
                 FALSE)

insert_move(self, move, position) ==
    Inserted(load_sequence(self, ListInsert(self.sequence, position, move),
                           self.initial_state),
             position)

Removed(loaded, position) ==
    IF loaded.raised THEN loaded
    ELSE Outcome([loaded.ctl EXCEPT !.current_step =
                     IF position < loaded.ctl.current_step THEN @ - 1
                     ELSE IF position = loaded.ctl.current_step
                             /\ loaded.ctl.current_step > 0
                     THEN @ - 1 ELSE @],
                 FALSE)

remove_move(self, position) ==
    IF position < 0 \/ position >= Len(self.sequence) THEN Outcome(self, FALSE)
    ELSE Removed(load_sequence(self, ListPop(self.sequence, position),
                               self.initial_state),
                 position)

clear_sequence(self) ==
    load_sequence(self, <<>>, self.initial_state)

\* get_current_state : a clone of a snapshot, or of the initial state
get_current_state(self) ==
    IF self.current_step < Len(self.state_history)
    THEN clone(self.state_history[self.current_step + 1])
    ELSE clone(self.initial_state)

----------------------------------------------------------------------------
(* The playback specification: the operations of an AnimationController    *)
(* are called in any order.                                                 *)

\* longest sequence the controller holds
MaxPlayback ==
    2

PlaybackMoves ==
    {"R", "U"}

\* the sequences handed to load_sequence
PlaybackSequences ==
    UNION {[1..n -> PlaybackMoves] : n \in 0..MaxPlayback}

\* the integers handed to seek_to, insert_move and remove_move
PlaybackIndices ==
    (-1)..(MaxPlayback + 1)

Called(op, raised) ==
    [op |-> op, raised |-> raised]

PlayInit ==
    /\ anim = NewController
    /\ last_op = Called("__init__", FALSE)
    /\ shown = None
    /\ CubeIdle
    /\ ScrIdle
    /\ SimpIdle
    /\ SolveIdle
    /\ ObjIdle
    /\ ParseIdle
    /\ RunIdle
    /\ SharedIdle
    /\ PruneIdle

\* a method that cannot raise has been called
Calls(op, after) ==
    /\ anim' = after
    /\ last_op' = Called(op, FALSE)
    /\ UNCHANGED <<shown, cubeVars, scrVars, simpVars, solveVars, objVars,
                   parseVars, runVars, sharedVars, pruneVars>>

\* a method that reloads the sequence has been called
Reloads(op, outcome) ==
    /\ anim' = outcome.ctl
    /\ last_op' = Called(op, outcome.raised)
    /\ UNCHANGED <<shown, cubeVars, scrVars, simpVars, solveVars, objVars,
                   parseVars, runVars, sharedVars, pruneVars>>

\* load_sequence(sequence): initial_state defaults to CubeState.solved()
LoadSequence(sequence) ==
    Reloads("load_sequence", load_sequence(anim, sequence, solved))

Play ==
    Calls("play", play(anim))

Pause ==
    Calls("pause", pause(anim))

ResumePlayback ==
    Calls("resume", resume(anim))

Stop ==
    Calls("stop", stop(anim))

StepForward ==
    Calls("step_forward", step_forward(anim))

StepBack ==
    Calls("step_back", step_back(anim))

SeekTo(step_index) ==
    Calls("seek_to", seek_to(anim, step_index))

\* playback_timer.timeout
TimerTick ==
    /\ anim.timer_active
    /\ Calls("_advance_step", _advance_step(anim))

\* insert_move(move): position None stands for the current step
InsertMoveHere(move) ==
    /\ Len(anim.sequence) < MaxPlayback
    /\ Reloads("insert_move", insert_move(anim, move, anim.current_step))

InsertMove(move, position) ==
    /\ Len(anim.sequence) < MaxPlayback
    /\ Reloads("insert_move", insert_move(anim, move, position))

RemoveMove(position) ==
    Reloads("remove_move", remove_move(anim, position))

ClearSequence ==
    Reloads("clear_sequence", clear_sequence(anim))

GetCurrentState ==
    /\ shown' = get_current_state(anim)
    /\ last_op' = Called("get_current_state", IsExc(shown'))
    /\ UNCHANGED <<anim, cubeVars, scrVars, simpVars, solveVars, objVars,
                   parseVars, runVars, sharedVars, pruneVars>>

PlayNext ==
    \/ \E sequence \in PlaybackSequences : LoadSequence(sequence)
    \/ Play
    \/ Pause
    \/ ResumePlayback
    \/ Stop
    \/ StepForward
    \/ StepBack
    \/ \E step_index \in PlaybackIndices : SeekTo(step_index)
    \/ TimerTick
    \/ \E move \in PlaybackMoves : InsertMoveHere(move)
    \/ \E move \in PlaybackMoves, position \in PlaybackIndices :
          InsertMove(move, position)
    \/ \E position \in PlaybackIndices : RemoveMove(position)
    \/ ClearSequence
    \/ GetCurrentState

SpecPlayback ==
    PlayInit /\ [][PlayNext]_vars

\* C30 (playback position invariant, as claimed): after any operations of
\* the controller, 0 <= current_step <= len(sequence), state_history holds
\* len(sequence) + 1 snapshots, and get_current_state returns the initial
\* state with the first current_step moves applied.
C30_PlaybackPosition ==
    last_op.op # "__init__"
        => /\ 0 <= anim.current_step
           /\ anim.current_step <= Len(anim.sequence)
           /\ Len(anim.state_history) = Len(anim.sequence) + 1
           /\ last_op.op = "get_current_state"
                 => StateEq(shown, apply_to(SubSeq(anim.sequence, 1, anim.current_step),
                                            anim.initial_state))

====
